---- MODULE Spec2Model ----
(***************************************************************************)
(* A model of the FunASR connection pool (src/app/funasr_pool.py), of the  *)
(* FunASR client's connection state (src/app/funasr_client.py) and of the  *)
(* streaming session StreamChatConsumer (src/app/consumers.py).            *)
(*                                                                         *)
(* Objects are identified by small integers.  A PooledConnection and the   *)
(* FunASRClient it wraps are created together and never separated, so one  *)
(* id names both.  An id whose object is unreachable and holds no open     *)
(* socket is handed out again (Collect): object identity is not address    *)
(* identity, and this keeps the heap finite.                               *)
(*                                                                         *)
(* Every pool operation that takes self._lock is one atomic step: the lock *)
(* is held from the first to the last statement of the operation.          *)
(***************************************************************************)
EXTENDS Integers, Sequences, FiniteSets, TLC

\* ------------------------------------------------------------------ bounds
\* Number of owner ids / streaming sessions.
NUsers == 2
\* Largest value the configuration gives pool_min_connections and
\* pool_max_connections.
MaxPool == 2
\* The configured pool_max_idle_time, in ticks of the clock.
MaxIdleTime == 0
\* The clock stops at MaxTime.
MaxTime == 1

None == 0
Users == 1..NUsers
\* Enough identities for every pooled connection and one dedicated
\* connection per session, plus one spare.
ClientIds == 1..(MaxPool + NUsers + 1)

VARIABLES
    \* FunASRConnectionPool
    connections,        \* self.connections: list of PooledConnection (by id)
    meta,               \* the fields of each PooledConnection object
    user_connections,   \* self.user_connections: owner -> PooledConnection | None
    min_connections,    \* self.min_connections
    max_connections,    \* self.max_connections
    initialized,        \* self._initialized
    cleanup_task,       \* self._cleanup_task is running
    \* FunASRClient
    ws,                 \* the state of each client's self.websocket
    \* the environment
    now,                \* time.time()
    \* SystemConfig
    use_connection_pool,
    \* StreamChatConsumer, one per session; the session's user_id is its index
    phase,              \* where the consumer is in its life (see Phases)
    funasr_client,      \* self.funasr_client
    funasr_task,        \* self.funasr_task: the slot of the listener task
    tasks,              \* the listener tasks (handle_funasr_responses)
    asr_connected,      \* self.asr_connected
    is_running,         \* self.is_running
    is_ai_speaking,     \* self.is_ai_speaking
    accumulated_text,   \* self.accumulated_text
    last_complete_text, \* self.last_complete_text
    \* the ASR backend
    inbox,              \* frames received on each client's socket, not yet read
    \* bookkeeping for the properties
    dedicated_of,       \* the session that opened a dedicated client
    pooled_closed_by,   \* the sessions that called disconnect() on a pooled client
    finals,             \* per session, the last two Final events handled
    \* UserSession (models.py), one per session
    history,            \* conversation_history: what each saved turn answers
    \* one call of call_llm_and_respond: its stream and its think-tag filter
    stream,             \* the characters call_llm_stream has still to yield
    full_response,      \* full_response: the characters received so far
    in_think_block,     \* in_think_block
    is_start_output,    \* is_start_output
    pending_content,    \* pending_content
    pending_pos,        \* where in the stream each character of it came from
    ai_chunks,          \* the contents of the ai_chunk messages, concatenated
    chunk_pos,          \* where in the stream each character of ai_chunks came from
    stream_done,        \* the loop and the flush after it are over
    \* FunASRConnectionPool._lock, for the operations that await under it
    lock,               \* "free", or the operation that holds the lock
    todo,               \* the connections that operation has still to handle
    close_waiting,      \* a close() is past its cancel step, waiting for the lock
    \* one call of FunASRClient.recognize_audio (batch recognition)
    b_ws,               \* the client's websocket: "none", "open", "closed", or
                        \* "dropped": None, with the socket it held left open
    b_len,              \* len(pcm_data)
    b_pc,               \* where recognize_audio is
    b_pos,              \* pos
    b_frames,           \* the frames sent so far, in order
    b_task,             \* where result_task (handle_recognition_results) is
    b_complete,         \* recognition_complete is set
    b_inbox,            \* frames received on the socket, not yet read
    b_arrived,          \* the events receive_message has returned, in order
    b_text,             \* accumulated_text of recognize_audio
    b_result,           \* what recognize_audio returns
    \* the audio path of the streaming sessions
    to_submit,          \* per session, the numbered frames its client has still to send
    audio,              \* an uploaded recording on its way through audio_processor
    wire,               \* per client, the config and numbered audio frames sent on it
    \* funasr_pool: the module's global pool and the calls of get_connection_pool
    _connection_pool,   \* the global _connection_pool: an instance or None
    instances,          \* the FunASRConnectionPool objects constructed, in order
    gp_pc,              \* per caller, where its get_connection_pool call is
    gp_ret              \* per caller, the instance its last call returned

poolVars == <<connections, meta, user_connections, min_connections,
              max_connections, initialized, cleanup_task, ws, now>>

sessVars == <<use_connection_pool, phase, funasr_client, funasr_task, tasks,
              asr_connected, is_running, is_ai_speaking, accumulated_text,
              last_complete_text, inbox, dedicated_of, pooled_closed_by, finals>>

callVars == <<history>>

filterVars == <<stream, full_response, in_think_block, is_start_output,
                pending_content, pending_pos, ai_chunks, chunk_pos,
                stream_done>>

lockVars == <<lock, todo, close_waiting>>

batchVars == <<b_ws, b_len, b_pc, b_pos, b_frames, b_task, b_complete,
               b_inbox, b_arrived, b_text, b_result>>

globalVars == <<_connection_pool, instances, gp_pc, gp_ret>>

\* What the pool's and the streaming sessions' actions leave alone.
restVars == <<batchVars, to_submit, audio, globalVars>>

vars == <<poolVars, sessVars, callVars, filterVars, lockVars, restVars, wire>>

\* --------------------------------------------------------- PooledConnection
\* dataclass PooledConnection: in_use = False, user_id = None by default
\* (created_at is never read and is left out).
PooledConnection(t) == [last_used |-> t, in_use |-> FALSE, user_id |-> None]

\* The pool and the clients as one value, so that an operation is a function
\* from a world to a world and handlers compose.
World ==
    [connections |-> connections, meta |-> meta,
     user_connections |-> user_connections, ws |-> ws,
     initialized |-> initialized, cleanup_task |-> cleanup_task]

Range(s) == {s[i] : i \in 1..Len(s)}

\* The sequence s without the positions in drop.
RECURSIVE WithoutIndexes(_, _)
WithoutIndexes(s, drop) ==
    IF s = <<>> THEN <<>>
    ELSE LET n == Len(s)
             front == WithoutIndexes(SubSeq(s, 1, n - 1), drop)
         IN IF n \in drop THEN front ELSE Append(front, s[n])

\* ------------------------------------------------------------- FunASRClient
\* FunASRClient.is_connected: websocket is not None and not websocket.closed.
is_connected(w, c) == w.ws[c] = "open"

\* FunASRClient.disconnect: close the socket if there is one; websocket = None.
client_disconnect(w, c) ==
    IF w.ws[c] \in {"open", "closed"}
    THEN [w EXCEPT !.ws[c] = "none"]
    ELSE w

\* A client object nobody has constructed yet (or that was collected).
HasFresh(w) == \E c \in ClientIds : w.ws[c] = "absent"
FreshClient(w) ==
    CHOOSE c \in ClientIds :
        /\ w.ws[c] = "absent"
        /\ \A d \in ClientIds : w.ws[d] = "absent" => c <= d

\* Objects that are unreachable (not pooled, not in refs) and hold no open
\* socket are dropped.
Collect(w, refs) ==
    LET dead == {c \in ClientIds :
                    /\ c \notin Range(w.connections)
                    /\ c \notin refs
                    /\ w.ws[c] \in {"none", "closed"}}
    IN [w EXCEPT
            !.ws = [c \in ClientIds |-> IF c \in dead THEN "absent" ELSE @[c]],
            !.meta = [c \in ClientIds |->
                        IF c \in dead \/ w.ws[c] = "absent"
                        THEN PooledConnection(0) ELSE @[c]]]

\* ------------------------------------------------------ FunASRConnectionPool
\* _create_connection, when connect() and send_config() succeed: a connected
\* client wrapped in a PooledConnection stamped with the current time.
create_connection(w, t) ==
    LET c == FreshClient(w)
    IN [w |-> [w EXCEPT !.ws[c] = "open", !.meta[c] = PooledConnection(t)],
        conn |-> c]

\* initialize(): under the lock, create min_connections connections, keeping
\* the k that succeed; start the cleanup task; set _initialized.
RECURSIVE CreateMany(_, _, _)
CreateMany(w, k, t) ==
    IF k = 0 THEN w
    ELSE LET r == create_connection(w, t)
         IN CreateMany([r.w EXCEPT !.connections = Append(@, r.conn)], k - 1, t)

\* An initialize() that does not look at _initialized.
initialize_Again(w, k, t) ==
    [CreateMany(w, k, t) EXCEPT !.initialized = TRUE, !.cleanup_task = TRUE]

initialize(w, k, t) ==
    IF w.initialized THEN w
    ELSE [CreateMany(w, k, t) EXCEPT !.initialized = TRUE, !.cleanup_task = TRUE]

\* A removal that forgets conn.in_use = False.
remove_user_connection_KeepsInUse(w, user_id, t) ==
    IF w.user_connections[user_id] # None
    THEN LET conn == w.user_connections[user_id]
         IN [w EXCEPT !.meta[conn].user_id = None,
                      !.meta[conn].last_used = t,
                      !.user_connections[user_id] = None]
    ELSE w

\* _remove_user_connection: unbind the owner and mark its connection free.
remove_user_connection(w, user_id, t) ==
    IF w.user_connections[user_id] # None
    THEN LET conn == w.user_connections[user_id]
         IN [w EXCEPT !.meta[conn].in_use = FALSE,
                      !.meta[conn].user_id = None,
                      !.meta[conn].last_used = t,
                      !.user_connections[user_id] = None]
    ELSE w

\* A lookup that never finds the owner's existing connection.
HasLiveBinding_Never(w, user_id) == FALSE

\* get_connection line 69-71: the owner is mapped and its client is connected.
HasLiveBinding(w, user_id) ==
    /\ w.user_connections[user_id] # None
    /\ is_connected(w, w.user_connections[user_id])

\* A scan that does not look at conn.in_use.
FreeIndexes_IgnoresInUse(w) ==
    {i \in 1..Len(w.connections) : is_connected(w, w.connections[i])}

\* get_connection line 79-80: the positions of the free, connected connections.
FreeIndexes(w) ==
    {i \in 1..Len(w.connections) :
        /\ ~w.meta[w.connections[i]].in_use
        /\ is_connected(w, w.connections[i])}

\* An off-by-one bound check.
CanCreate_OffByOne(w, max) == Len(w.connections) <= max

\* get_connection line 89.
CanCreate(w, max) == Len(w.connections) < max

\* Bind connection conn to user_id (lines 81-84 and 92-96).
Bind(w, conn, user_id, t) ==
    [w EXCEPT !.meta[conn].in_use = TRUE,
              !.meta[conn].user_id = user_id,
              !.meta[conn].last_used = t,
              !.user_connections[user_id] = conn]

\* A failure handler that keeps the half-made connection in the list.
create_failed_KeepsHalfMade(w) ==
    LET c == FreshClient(w)
    IN [w EXCEPT !.ws[c] = "none", !.connections = Append(@, c)]

\* get_connection line 99-100: _create_connection raised; the exception is
\* logged and nothing is appended or bound.
create_failed(w) == w

\* get_connection(user_id).  ok says whether _create_connection succeeds if it
\* is called.  The result is the new world, the client returned (None for
\* "pool exhausted") and the branch taken.
get_connection(w, user_id, max, t, ok) ==
    IF HasLiveBinding(w, user_id)
    THEN LET conn == w.user_connections[user_id]
         IN [w |-> [w EXCEPT !.meta[conn].last_used = t],
             ret |-> conn, path |-> "existing"]
    ELSE
      LET w1 == remove_user_connection(w, user_id, t)
          free == FreeIndexes(w1)
      IN IF free # {}
         THEN LET i == CHOOSE i \in free : \A j \in free : i <= j
              IN [w |-> Bind(w1, w1.connections[i], user_id, t),
                  ret |-> w1.connections[i], path |-> "free"]
         ELSE IF CanCreate(w1, max)
         THEN IF ok
              THEN LET r == create_connection(w1, t)
                       w2 == [r.w EXCEPT !.connections = Append(@, r.conn)]
                   IN [w |-> Bind(w2, r.conn, user_id, t),
                       ret |-> r.conn, path |-> "created"]
              ELSE [w |-> create_failed(w1), ret |-> None, path |-> "failed"]
         ELSE [w |-> w1, ret |-> None, path |-> "exhausted"]

\* A release that also closes the released client.
release_connection_Closes(w, user_id, t) ==
    IF w.user_connections[user_id] # None
    THEN client_disconnect(remove_user_connection(w, user_id, t),
                           w.user_connections[user_id])
    ELSE w

\* release_connection(user_id).
release_connection(w, user_id, t) == remove_user_connection(w, user_id, t)

\* A sweep that collects what has been idle whether or not it is in use.
IdleIndexes_InUseToo(w, min, t) ==
    {i \in 1..Len(w.connections) :
        /\ Len(w.connections) > min
        /\ t - w.meta[w.connections[i]].last_used > MaxIdleTime}

\* _cleanup_idle_connections line 147-152: the positions collected by one
\* sweep.  len(self.connections) is the length before anything is removed.
IdleIndexes(w, min, t) ==
    {i \in 1..Len(w.connections) :
        /\ ~w.meta[w.connections[i]].in_use
        /\ Len(w.connections) > min
        /\ t - w.meta[w.connections[i]].last_used > MaxIdleTime}

RECURSIVE DisconnectAll(_, _)
DisconnectAll(w, cs) ==
    IF cs = {} THEN w
    ELSE LET c == CHOOSE c \in cs : TRUE
         IN DisconnectAll(client_disconnect(w, c), cs \ {c})

\* One iteration of _cleanup_idle_connections, under the lock: disconnect and
\* pop every collected connection.
cleanup_idle_connections(w, min, t) ==
    LET drop == IdleIndexes(w, min, t)
        w1 == DisconnectAll(w, {w.connections[i] : i \in drop})
    IN [w1 EXCEPT !.connections = WithoutIndexes(@, drop)]

\* close(): cancel the cleanup task; under the lock disconnect every
\* connection and clear both collections.
close(w) ==
    [DisconnectAll(w, Range(w.connections)) EXCEPT
        !.cleanup_task = FALSE,
        !.connections = <<>>,
        !.user_connections = [u \in Users |-> None]]

\* get_stats(): computed from the collections as they are at the moment of the
\* call; the method is synchronous and does not take the lock.
get_stats(w) ==
    LET total_connections == Len(w.connections)
        active_connections ==
            Cardinality({i \in 1..Len(w.connections) :
                            w.meta[w.connections[i]].in_use})
    IN [total_connections |-> total_connections,
        active_connections |-> active_connections,
        idle_connections |-> total_connections - active_connections,
        active_users |->
            Cardinality({u \in Users : w.user_connections[u] # None})]

\* The sweep and close() hold the lock across `await conn.client.disconnect()`.
\* disconnect() suspends when it has an open socket to close; on a client
\* whose socket is gone it returns at once.
Remove(s, c) == SelectSeq(s, LAMBDA x : x # c)

Reverse(s) == [i \in 1..Len(s) |-> s[Len(s) + 1 - i]]

\* The loop over the clients cs up to its next suspension: the clients handled
\* on the way are disconnected (and, in the sweep, popped); rest starts with
\* the client whose disconnect() is being awaited.
RECURSIVE RunLoop(_, _, _)
RunLoop(w, cs, pop) ==
    IF cs = <<>> \/ is_connected(w, Head(cs))
    THEN [w |-> w, rest |-> cs]
    ELSE LET w1 == client_disconnect(w, Head(cs))
         IN RunLoop(IF pop
                    THEN [w1 EXCEPT !.connections = Remove(@, Head(cs))]
                    ELSE w1,
                    Tail(cs), pop)

\* close() line 194-195, after the loop.
clear(w) ==
    [w EXCEPT !.connections = <<>>,
              !.user_connections = [u \in Users |-> None]]

\* ------------------------------------------------------------------ actions
\* What has been sent on each client after a step that leaves the sockets as
\* newws: a client that is gone has no history, a client made in this step
\* has had its configuration sent (_create_connection line 128-129,
\* connect_funasr line 112-113) unless it is in raw, and nothing else
\* changes.
Rewire(newws, raw) ==
    [c \in ClientIds |->
        IF newws[c] = "absent" THEN <<>>
        ELSE IF ws[c] = "absent"
        THEN IF c \in raw \/ newws[c] = "none" THEN <<>>
             ELSE <<[kind |-> "config"]>>
        ELSE wire[c]]

SetWorld(w, refs) ==
    \E g \in {Collect(w, refs)} :
       /\ wire' = Rewire(g.ws, {})
       /\ connections' = g.connections
       /\ meta' = g.meta
       /\ user_connections' = g.user_connections
       /\ ws' = g.ws
       /\ initialized' = g.initialized
       /\ cleanup_task' = g.cleanup_task

PoolInit ==
    /\ connections = <<>>
    /\ meta = [c \in ClientIds |-> PooledConnection(0)]
    /\ user_connections = [u \in Users |-> None]
    /\ min_connections \in 0..MaxPool
    /\ max_connections \in 0..MaxPool
    /\ initialized = FALSE
    /\ cleanup_task = FALSE
    /\ ws = [c \in ClientIds |-> "absent"]
    /\ now = 0
    /\ lock = "free"
    /\ todo = <<>>
    /\ close_waiting = FALSE


\* get_connection_pool(): the pool is initialized before anyone uses it.
Initialize ==
    /\ \E k \in 0..(IF initialized THEN 0 ELSE min_connections) :
          SetWorld(initialize(World, k, now), {})
    /\ UNCHANGED <<min_connections, max_connections, now, sessVars>>
    /\ UNCHANGED <<callVars, filterVars, lockVars, restVars>>

GetConnection(u) ==
    /\ initialized
    /\ \E ok \in BOOLEAN :
          SetWorld(get_connection(World, u, max_connections, now, ok).w, {})
    /\ UNCHANGED <<min_connections, max_connections, now, sessVars>>
    /\ UNCHANGED <<callVars, filterVars, lockVars, restVars>>

ReleaseConnection(u) ==
    /\ initialized
    /\ SetWorld(release_connection(World, u, now), {})
    /\ UNCHANGED <<min_connections, max_connections, now, sessVars>>
    /\ UNCHANGED <<callVars, filterVars, lockVars, restVars>>

\* One tick of the cleanup task (every 60 s while it is not cancelled).
Sweep ==
    /\ cleanup_task
    /\ SetWorld(cleanup_idle_connections(World, min_connections, now), {})
    /\ UNCHANGED <<min_connections, max_connections, now, sessVars>>
    /\ UNCHANGED <<callVars, filterVars, lockVars, restVars>>

Close ==
    /\ initialized
    /\ SetWorld(close(World), {})
    /\ UNCHANGED <<min_connections, max_connections, now, sessVars>>
    /\ UNCHANGED <<callVars, filterVars, lockVars, restVars>>

\* Time passes.
Tick ==
    /\ now < MaxTime
    /\ now' = now + 1
    /\ UNCHANGED <<connections, meta, user_connections, min_connections,
                   max_connections, initialized, cleanup_task, ws, sessVars>>
    /\ UNCHANGED <<callVars, filterVars, lockVars, restVars, wire>>

\* ---------------------------------------- the sweep and close(), step by step
\* asyncio.Lock hands the lock to its waiters first: it can be taken at once
\* only when nobody waits for it.
LockFree == lock = "free" /\ ~close_waiting

\* initialize() finds the pool uninitialized, acquires the lock and starts
\* creating connections.
InitializeBegin ==
    /\ ~initialized
    /\ LockFree
    /\ lock' = "initialize"
    /\ UNCHANGED <<restVars, wire, poolVars, sessVars, callVars, filterVars, todo,
                   close_waiting>>

\* The creations are over (k of them succeeded); the cleanup task is started,
\* _initialized is set and the lock released.
InitializeEnd ==
    /\ lock = "initialize"
    /\ \E k \in 0..min_connections :
          SetWorld(initialize(World, k, now), {})
    /\ lock' = "free"
    /\ UNCHANGED <<min_connections, max_connections, now, sessVars>>
    /\ UNCHANGED <<restVars, callVars, filterVars, todo, close_waiting>>

\* The sweep acquires the lock, collects the idle positions and starts on them
\* from the highest one down.
SweepBegin ==
    /\ cleanup_task
    /\ LockFree
    /\ LET drop == IdleIndexes(World, min_connections, now)
           kept == (1..Len(connections)) \ drop
           r == RunLoop(World, Reverse(WithoutIndexes(connections, kept)), TRUE)
       IN /\ SetWorld(r.w, {})
          /\ todo' = r.rest
          /\ lock' = IF r.rest = <<>> THEN "free" ELSE "sweep"
    /\ UNCHANGED <<min_connections, max_connections, now, sessVars>>
    /\ UNCHANGED <<restVars, callVars, filterVars, close_waiting>>

\* The awaited conn.client.disconnect() ends (line 157-160, 188-191): it
\* returns, or websocket.close() raises on a transport that broke, which
\* leaves the client with its websocket, closed.
disconnect_ends(w, c, raised) ==
    IF raised /\ w.ws[c] \in {"open", "closed"}
    THEN [w EXCEPT !.ws[c] = "closed"]
    ELSE client_disconnect(w, c)

\* The awaited disconnect() returns: the connection is popped and the loop
\* goes on; the lock is released after the last one.
SweepStep ==
    /\ lock = "sweep"
    /\ \E raised \in BOOLEAN :
          LET c == Head(todo)
              w1 == [disconnect_ends(World, c, raised) EXCEPT
                        !.connections = Remove(@, c)]
              r == RunLoop(w1, Tail(todo), TRUE)
          IN /\ SetWorld(r.w, {})
             /\ todo' = r.rest
             /\ lock' = IF r.rest = <<>> THEN "free" ELSE "sweep"
    /\ UNCHANGED <<min_connections, max_connections, now, sessVars>>
    /\ UNCHANGED <<restVars, callVars, filterVars, close_waiting>>

\* close() cancels the cleanup task (a sweep suspended in a disconnect() gives
\* the lock up), acquires the lock and starts on the connections in list
\* order; with nothing to wait for it clears the collections at once.
CloseBegin ==
    /\ initialized
    /\ lock \in {"free", "sweep"}
    /\ ~close_waiting
    /\ LET r == RunLoop([World EXCEPT !.cleanup_task = FALSE],
                        connections, FALSE)
       IN /\ SetWorld(IF r.rest = <<>> THEN clear(r.w) ELSE r.w, {})
          /\ todo' = r.rest
          /\ lock' = IF r.rest = <<>> THEN "free" ELSE "close"
    /\ UNCHANGED <<min_connections, max_connections, now, sessVars>>
    /\ UNCHANGED <<restVars, callVars, filterVars, close_waiting>>

\* close() is called while initialize() or another close() holds the lock:
\* the cleanup task, if there is one, is cancelled (line 178-183; before
\* initialize() has created it there is nothing to cancel), and close() waits
\* for the lock.
CloseWaits ==
    /\ lock \in {"initialize", "close"}
    /\ ~close_waiting
    /\ close_waiting' = TRUE
    /\ cleanup_task' = FALSE
    /\ UNCHANGED <<connections, meta, user_connections, min_connections,
                   max_connections, initialized, ws, now, sessVars>>
    /\ UNCHANGED <<restVars, wire, callVars, filterVars, lock, todo>>

\* The waiting close() gets the lock and starts on the connections.
CloseAcquire ==
    /\ lock = "free"
    /\ close_waiting
    /\ close_waiting' = FALSE
    /\ LET r == RunLoop(World, connections, FALSE)
       IN /\ SetWorld(IF r.rest = <<>> THEN clear(r.w) ELSE r.w, {})
          /\ todo' = r.rest
          /\ lock' = IF r.rest = <<>> THEN "free" ELSE "close"
    /\ UNCHANGED <<min_connections, max_connections, now, sessVars>>
    /\ UNCHANGED <<restVars, callVars, filterVars>>

\* The awaited disconnect() returns and the loop goes on; after the last
\* connection both collections are cleared and the lock is released.
CloseStep ==
    /\ lock = "close"
    /\ \E raised \in BOOLEAN :
          LET r == RunLoop(disconnect_ends(World, Head(todo), raised),
                           Tail(todo), FALSE)
          IN /\ SetWorld(IF r.rest = <<>> THEN clear(r.w) ELSE r.w, {})
             /\ todo' = r.rest
             /\ lock' = IF r.rest = <<>> THEN "free" ELSE "close"
    /\ UNCHANGED <<min_connections, max_connections, now, sessVars>>
    /\ UNCHANGED <<restVars, callVars, filterVars, close_waiting>>

\* ------------------------------------------------------ recognition events
\* A recognition text is a sequence of tokens: "<|zh|>" stands for any marker
\* of the form <|...|>, " " for a whitespace character, the rest for ordinary
\* characters.
IsTag(x) == x = "<|zh|>"
IsSpace(x) == x = " "

\* The raw texts the backend sends: empty, whitespace only, plain, the same
\* text behind a marker and before a blank, and a different text.
RawTexts == {<<>>, <<" ">>, <<"a">>, <<"<|zh|>", "a", " ">>, <<"b">>}

RECURSIVE LStrip(_)
LStrip(t) == IF t # <<>> /\ IsSpace(Head(t)) THEN LStrip(Tail(t)) ELSE t

RECURSIVE RStrip(_)
RStrip(t) ==
    IF t # <<>> /\ IsSpace(t[Len(t)]) THEN RStrip(SubSeq(t, 1, Len(t) - 1)) ELSE t

\* re.sub(r'<\|[^|]*\|>\s*', '', text): every marker goes, with the whitespace
\* that follows it.  (The three-marker pattern of line 38 removes a subset of
\* what this one removes.)
RECURSIVE RemoveTags(_)
RemoveTags(t) ==
    IF t = <<>> THEN <<>>
    ELSE IF IsTag(Head(t)) THEN RemoveTags(LStrip(Tail(t)))
    ELSE <<Head(t)>> \o RemoveTags(Tail(t))

\* utils.clean_recognition_text.
clean_recognition_text(text) ==
    IF text = <<>> THEN text ELSE RStrip(LStrip(RemoveTags(text)))

\* handle_funasr_responses line 266.
IsFinalMode(mode) == mode = "2pass-offline" \/ mode = "offline"

\* handle_funasr_responses line 252: the event is looked at at all.
EventAccepted(s) == ~is_ai_speaking[s] /\ is_running[s]

\* A test that does not compare with the last finalized text.
IsNovel_NoDedupe(display_text, last) ==
    display_text # <<>> /\ RStrip(LStrip(display_text)) # <<>>

\* handle_funasr_responses line 275: a Final text that starts an LLM call.
IsNovel(display_text, last) ==
    /\ display_text # <<>>
    /\ RStrip(LStrip(display_text)) # <<>>
    /\ display_text # last

\* ----------------------------------------------------------------- sessions
\* Listener task slots per session, and frames a socket buffers.
MaxTasks == 2
MaxInbox == 1

Phases == {"new", "open", "reconnect", "closed"}
TaskSlots == 1..MaxTasks
NoTask == [st |-> "none", inflight |-> FALSE]

\* The clients the live consumers hold in self.funasr_client.
Referenced(fc, ph) == {fc[s] : s \in {x \in Users : ph[x] # "closed"}} \ {None}

\* Write back the world, the consumers' client references and phases.
\* Unreachable clients are dropped, and a socket that is not open buffers
\* nothing anyone will read.
CommitRaw(w, fc, ph, ded, inb, raw) ==
    \E g \in {Collect(w, Referenced(fc, ph))} :
       /\ wire' = Rewire(g.ws, raw)
       /\ connections' = g.connections
       /\ meta' = g.meta
       /\ user_connections' = g.user_connections
       /\ ws' = g.ws
       /\ initialized' = g.initialized
       /\ cleanup_task' = g.cleanup_task
       /\ funasr_client' = fc
       /\ phase' = ph
       /\ dedicated_of' = [c \in ClientIds |->
                             IF g.ws[c] = "absent" THEN None ELSE ded[c]]
       /\ inbox' = [c \in ClientIds |->
                      IF g.ws[c] = "open" THEN inb[c] ELSE <<>>]

Commit(w, fc, ph, ded, inb) == CommitRaw(w, fc, ph, ded, inb, {})

\* The backend or the network closes a client's socket: websocket.closed.
TransportClosed(c) ==
    /\ ws[c] = "open"
    /\ Commit([World EXCEPT !.ws[c] = "closed"], funasr_client, phase,
              dedicated_of, inbox)
    /\ UNCHANGED <<min_connections, max_connections, now,
                   use_connection_pool, funasr_task, tasks, asr_connected,
                   is_running, is_ai_speaking, accumulated_text,
                   last_complete_text, pooled_closed_by, finals>>
    /\ UNCHANGED <<callVars, filterVars, lockVars, restVars>>

\* A cancel() that never reaches the task.
cancel_Ignored(tsk, k) == tsk

\* A cancel() that stops a task only while it polls: one that is sending a
\* final result or is in its LLM call goes on.
cancel_OnlyWhilePolling(tsk, k) ==
    IF k # None /\ tsk[k].st = "poll"
    THEN [tsk EXCEPT ![k].st = "done"]
    ELSE tsk

\* task.cancel(): CancelledError is raised in the task at its await; it leaves
\* the loop, and a call_llm_and_respond in progress runs its finally clause.
\* The canceller awaits before it does anything else, so the task has ended by
\* then.
cancel(tsk, k) ==
    IF k # None /\ tsk[k].st \in {"poll", "final_send", "llm"}
    THEN [tsk EXCEPT ![k].st = "done"]
    ELSE tsk

\* call_llm_and_respond line 442-443, run by a task cancelled in its call.
SpeakingAfterCancel(s, k) ==
    IF cancel(tasks[s], k) # tasks[s] /\ tasks[s][k].st = "llm"
    THEN FALSE ELSE is_ai_speaking[s]

HasTaskSlot(tsk) == \E k \in TaskSlots : tsk[k].st \in {"none", "done"}
NewTaskSlot(tsk) ==
    CHOOSE k \in TaskSlots :
        /\ tsk[k].st \in {"none", "done"}
        /\ \A j \in TaskSlots : tsk[j].st \in {"none", "done"} => k <= j

\* connect_funasr line 124-127: asr_connected, and a new listener task.
Started(s, w, c, ded) ==
    /\ HasTaskSlot(tasks[s])
    /\ asr_connected' = [asr_connected EXCEPT ![s] = TRUE]
    /\ \E k \in {NewTaskSlot(tasks[s])} :
          /\ tasks' = [tasks EXCEPT ![s][k] = [st |-> "poll", inflight |-> FALSE]]
          /\ funasr_task' = [funasr_task EXCEPT ![s] = k]
    /\ Commit(w, [funasr_client EXCEPT ![s] = c],
              [phase EXCEPT ![s] = "open"], ded, inbox)

\* connect_funasr line 129-135: the exception is reported and swallowed.
NotStarted(s, w, c, ded) ==
    /\ UNCHANGED <<asr_connected, tasks, funasr_task>>
    /\ CommitRaw(w, [funasr_client EXCEPT ![s] = c],
                 [phase EXCEPT ![s] = "open"], ded, inbox, {c})

\* get_connection_pool(): the pool is created and initialized on first use;
\* k of its min_connections creations succeed.
PoolStarts == 0..(IF initialized THEN 0 ELSE min_connections)
EnoughClients(k) == Cardinality({c \in ClientIds : ws[c] = "absent"}) > k

\* How connect_funasr line 108-113 can end in dedicated mode:
\*   "ok"             connected and configured;
\*   "connect_failed" connect() raised, the client has no websocket;
\*   "config_failed"  send_config raised on a socket that broke;
\*   "config_unsent"  create_stream_config_async raised (it reads the
\*                    database), the client is connected and no
\*                    configuration was sent.
DedicatedOutcomes == {"ok", "connect_failed", "config_failed", "config_unsent"}

\* connect_funasr.
connect_funasr(s) ==
    IF use_connection_pool
    THEN \E k \in PoolStarts, ok \in BOOLEAN :
            /\ EnoughClients(k)
            /\ \E r \in {get_connection(initialize(World, k, now), s,
                                        max_connections, now, ok)} :
                  IF r.ret # None
                  THEN Started(s, r.w, r.ret, dedicated_of)
                  ELSE NotStarted(s, r.w, None, dedicated_of)
    ELSE /\ HasFresh(World)
         /\ \E outcome \in DedicatedOutcomes :
              \E c \in {FreshClient(World)} :
                 IF outcome = "ok"
                 THEN Started(s, [World EXCEPT !.ws[c] = "open"], c,
                              [dedicated_of EXCEPT ![c] = s])
                 ELSE IF outcome = "config_failed"
                 THEN NotStarted(s, [World EXCEPT !.ws[c] = "closed"], c,
                                 [dedicated_of EXCEPT ![c] = s])
                 ELSE IF outcome = "config_unsent"
                 THEN NotStarted(s, [World EXCEPT !.ws[c] = "open"], c,
                                 [dedicated_of EXCEPT ![c] = s])
                 ELSE NotStarted(s, [World EXCEPT !.ws[c] = "none"], c,
                                 dedicated_of)

\* disconnect line 63 and reconnect_funasr line 150: the configuration as it
\* is now decides between release and disconnect.
ReleaseInPoolMode == use_connection_pool

\* disconnect line 58-73 and reconnect_funasr line 145-156: give up the
\* current client; the consumer then holds fc and is in phase ph (a consumer
\* that has disconnected is discarded, and its reference with it).
give_up_client(s, w, fc, ph) ==
    IF funasr_client[s] = None
    THEN /\ Commit(w, fc, ph, dedicated_of, inbox)
         /\ UNCHANGED pooled_closed_by
    ELSE IF ReleaseInPoolMode
    THEN /\ \E k \in PoolStarts :
              /\ EnoughClients(k)
              /\ Commit(release_connection(initialize(w, k, now), s, now),
                        fc, ph, dedicated_of, inbox)
         /\ UNCHANGED pooled_closed_by
    ELSE /\ Commit(client_disconnect(w, funasr_client[s]),
                   fc, ph, dedicated_of, inbox)
         /\ pooled_closed_by' =
               IF funasr_client[s] \in Range(w.connections)
               THEN pooled_closed_by \cup {s} ELSE pooled_closed_by

\* StreamChatConsumer.connect: a new consumer, then connect_funasr.
Connect(s) ==
    /\ phase[s] = "new"
    /\ connect_funasr(s)
    /\ UNCHANGED <<min_connections, max_connections, now, use_connection_pool,
                   is_running, is_ai_speaking, accumulated_text,
                   last_complete_text, pooled_closed_by, finals>>
    /\ UNCHANGED <<callVars, filterVars, lockVars, restVars>>

\* StreamChatConsumer.disconnect.
Disconnect(s) ==
    /\ phase[s] = "open"
    /\ is_running' = [is_running EXCEPT ![s] = FALSE]
    /\ tasks' = [tasks EXCEPT ![s] = cancel(tasks[s], funasr_task[s])]
    /\ is_ai_speaking' =
          [is_ai_speaking EXCEPT ![s] = SpeakingAfterCancel(s, funasr_task[s])]
    /\ give_up_client(s, World, [funasr_client EXCEPT ![s] = None],
                      [phase EXCEPT ![s] = "closed"])
    /\ UNCHANGED <<min_connections, max_connections, now, use_connection_pool,
                   funasr_task, asr_connected, accumulated_text,
                   last_complete_text, finals>>
    /\ history' = [history EXCEPT ![s] = <<>>]
    /\ UNCHANGED <<filterVars, lockVars, restVars>>

\* StreamChatConsumer.disconnect, one suspension at a time.  Line 53-58: the
\* consumer stops, the listener is cancelled (the cancel is not awaited, and
\* a listener that ended or never started makes no difference to it), and the
\* handler suspends in get_system_config_async().
TeardownBegin(s) ==
    /\ phase[s] = "open"
    /\ is_running' = [is_running EXCEPT ![s] = FALSE]
    /\ tasks' = [tasks EXCEPT ![s] = cancel(tasks[s], funasr_task[s])]
    /\ is_ai_speaking' =
          [is_ai_speaking EXCEPT ![s] = SpeakingAfterCancel(s, funasr_task[s])]
    /\ phase' = [phase EXCEPT ![s] = "teardown"]
    /\ UNCHANGED <<poolVars, use_connection_pool, funasr_client, funasr_task,
                   asr_connected, accumulated_text, last_complete_text, inbox,
                   dedicated_of, pooled_closed_by, finals>>
    /\ UNCHANGED <<callVars, filterVars, lockVars, restVars, wire>>

\* release_connection line 108: `async with self._lock` is what a teardown
\* that releases a pooled client waits for.
TeardownNeedsLock(s) == funasr_client[s] # None /\ ReleaseInPoolMode

\* Line 63-79: the client is released or disconnected, the session is removed
\* and the consumer stops.
TeardownEnd(s) ==
    /\ phase[s] = "teardown"
    /\ TeardownNeedsLock(s) => LockFree
    /\ give_up_client(s, World, [funasr_client EXCEPT ![s] = None],
                      [phase EXCEPT ![s] = "closed"])
    /\ UNCHANGED <<min_connections, max_connections, now, use_connection_pool,
                   funasr_task, asr_connected, accumulated_text,
                   last_complete_text, finals, is_running, tasks,
                   is_ai_speaking>>
    /\ history' = [history EXCEPT ![s] = <<>>]
    /\ UNCHANGED <<filterVars, lockVars, restVars>>

\* reconnect_funasr line 139-156: cancel the listener, give up the client.
\* connect_funasr follows as ReconnectConnect.
reconnect_funasr(s, w) ==
    /\ tasks' = [tasks EXCEPT ![s] = cancel(tasks[s], funasr_task[s])]
    /\ is_ai_speaking' =
          [is_ai_speaking EXCEPT ![s] = SpeakingAfterCancel(s, funasr_task[s])]
    /\ give_up_client(s, w, funasr_client, [phase EXCEPT ![s] = "reconnect"])
    /\ UNCHANGED <<min_connections, max_connections, now, use_connection_pool,
                   funasr_task, asr_connected, is_running, accumulated_text,
                   last_complete_text, finals>>
    /\ UNCHANGED <<callVars, filterVars, lockVars, batchVars, audio,
      globalVars>>

\* Frames the client numbers before it goes on with unnumbered ones.
MaxFrames == 2

varsButFrames ==
    <<poolVars, sessVars, callVars, filterVars, lockVars, batchVars, audio,
      globalVars>>

\* call_llm_and_respond is running for a result of session s.
LlmInFlight(s) == \E k \in TaskSlots : tasks[s][k].st = "llm"

\* A send that puts the frame before what was sent earlier.
send_audio_data_First(sent, pending, busy) ==
    IF pending = <<>> THEN sent
    ELSE <<[kind |-> "audio", n |-> Head(pending), busy |-> busy]>> \o sent

\* funasr_client.send_audio_data(audio_data): the frame goes out after
\* everything sent before on this client.  Only numbered frames are kept;
\* busy notes whether a call to the LLM was running when it was sent.
send_audio_data(sent, pending, busy) ==
    IF pending = <<>> THEN sent
    ELSE Append(sent, [kind |-> "audio", n |-> Head(pending), busy |-> busy])

\* handle_binary_audio_data / handle_audio_data: one audio frame.  The send
\* succeeds, or fails on a broken socket.
AudioFrame(s) ==
    /\ phase[s] = "open"
    /\ to_submit' = [to_submit EXCEPT ![s] = IF @ = <<>> THEN @ ELSE Tail(@)]
    /\ IF ~asr_connected[s] \/ funasr_client[s] = None
       THEN UNCHANGED <<varsButFrames, wire>>
       ELSE IF ~is_connected(World, funasr_client[s])
       THEN reconnect_funasr(s, World)
       ELSE \E sent \in BOOLEAN :
               IF sent
               THEN /\ wire' = [wire EXCEPT ![funasr_client[s]] =
                                  send_audio_data(@, to_submit[s],
                                                  LlmInFlight(s))]
                    /\ UNCHANGED varsButFrames
               ELSE reconnect_funasr(s,
                       [World EXCEPT !.ws[funasr_client[s]] = "closed"])

\* reconnect_funasr line 159: connect_funasr again.
ReconnectConnect(s) ==
    /\ phase[s] = "reconnect"
    /\ connect_funasr(s)
    /\ UNCHANGED <<min_connections, max_connections, now, use_connection_pool,
                   is_running, is_ai_speaking, accumulated_text,
                   last_complete_text, pooled_closed_by, finals>>
    /\ UNCHANGED <<callVars, filterVars, lockVars, restVars>>

\* The administrator saves SystemConfig with the other mode.
ToggleConfig ==
    /\ use_connection_pool' = ~use_connection_pool
    /\ UNCHANGED <<poolVars, phase, funasr_client, funasr_task, tasks,
                   asr_connected, is_running, is_ai_speaking, accumulated_text,
                   last_complete_text, inbox, dedicated_of, pooled_closed_by,
                   finals>>
    /\ UNCHANGED <<callVars, filterVars, lockVars, restVars, wire>>

\* ------------------------------------------------------------ the listener
\* The backend sends a recognition result on a socket a session listens to.
\* inflight records that one of these sessions had an LLM call in progress
\* when the result was delivered.
Listeners(c) == {s \in Users : phase[s] \in {"open", "reconnect"}
                                 /\ funasr_client[s] = c}
LlmInProgress(s) == \E k \in TaskSlots : tasks[s][k].st = "llm"

BackendEvent(c) ==
    /\ ws[c] = "open"
    /\ Listeners(c) # {}
    /\ Len(inbox[c]) < MaxInbox
    /\ \E mode \in {"2pass-online", "2pass-offline"}, text \in RawTexts :
          inbox' = [inbox EXCEPT ![c] = Append(@,
                       [mode |-> mode, text |-> text,
                        inflight |-> \E s \in Listeners(c) : LlmInProgress(s)])]
    /\ UNCHANGED <<poolVars, use_connection_pool, phase, funasr_client,
                   funasr_task, tasks, asr_connected, is_running,
                   is_ai_speaking, accumulated_text, last_complete_text,
                   dedicated_of, pooled_closed_by, finals>>
    /\ UNCHANGED <<callVars, filterVars, lockVars, restVars, wire>>

\* The Final events the listener has read, the last two of them: the cleaned
\* text, and whether an LLM call was started for it.
Logged(log, entry) ==
    IF Len(log) < 2 THEN Append(log, entry) ELSE <<log[2], entry>>

\* handle_funasr_responses line 266-284: a Final event.
HandleFinal(s, k, e) ==
    \E display_text \in {clean_recognition_text(e.text)} :
       /\ accumulated_text' = [accumulated_text EXCEPT ![s] = e.text]
       /\ finals' = [finals EXCEPT ![s] =
                        Logged(@, [text |-> display_text, launched |-> FALSE])]
       /\ IF IsNovel(display_text, last_complete_text[s])
          THEN /\ last_complete_text' =
                     [last_complete_text EXCEPT ![s] = display_text]
               /\ tasks' = [tasks EXCEPT ![s][k] =
                               [st |-> "final_send", inflight |-> e.inflight]]
          ELSE UNCHANGED <<last_complete_text, tasks>>

\* handle_funasr_responses line 241-264, 288-301: one turn of the loop, up to
\* the send of recognition_final.
ListenerPoll(s, k) ==
    /\ tasks[s][k].st = "poll"
    /\ IF ~is_running[s] \/ funasr_client[s] = None
          \/ ~is_connected(World, funasr_client[s])
       THEN /\ tasks' = [tasks EXCEPT ![s][k].st = "done"]
            /\ UNCHANGED <<inbox, accumulated_text, last_complete_text, finals>>
       ELSE IF inbox[funasr_client[s]] = <<>>
       THEN UNCHANGED <<tasks, inbox, accumulated_text, last_complete_text,
                        finals>>
       ELSE \E e \in {Head(inbox[funasr_client[s]])} :
              /\ inbox' = [inbox EXCEPT ![funasr_client[s]] = Tail(@)]
              /\ IF ~EventAccepted(s)
                 THEN /\ finals' = [finals EXCEPT ![s] =
                             IF IsFinalMode(e.mode)
                             THEN Logged(@, [text |-> clean_recognition_text(e.text),
                                             launched |-> FALSE])
                             ELSE @]
                      /\ UNCHANGED <<tasks, accumulated_text,
                                     last_complete_text>>
                 ELSE IF IsFinalMode(e.mode)
                 THEN HandleFinal(s, k, e)
                 ELSE /\ accumulated_text' =
                            [accumulated_text EXCEPT ![s] = e.text]
                      /\ UNCHANGED <<tasks, last_complete_text, finals>>
    /\ UNCHANGED <<poolVars, use_connection_pool, phase, funasr_client,
                   funasr_task, asr_connected, is_running, is_ai_speaking,
                   dedicated_of, pooled_closed_by>>
    /\ UNCHANGED <<callVars, filterVars, lockVars, restVars, wire>>

\* handle_funasr_responses line 286, call_llm_and_respond line 303-306: the
\* call starts, and the session is marked as speaking.
ListenerLaunch(s, k) ==
    /\ tasks[s][k].st = "final_send"
    /\ tasks' = [tasks EXCEPT ![s][k].st = "llm"]
    /\ is_ai_speaking' = [is_ai_speaking EXCEPT ![s] = TRUE]
    /\ finals' = [finals EXCEPT ![s][Len(finals[s])].launched = TRUE]
    /\ UNCHANGED <<poolVars, use_connection_pool, phase, funasr_client,
                   funasr_task, asr_connected, is_running, accumulated_text,
                   last_complete_text, inbox, dedicated_of, pooled_closed_by>>
    /\ UNCHANGED <<callVars, filterVars, lockVars, restVars, wire>>

\* SystemConfig.max_conversation_history.
MaxHistory == 1

\* UserSession.add_conversation: append the turn, keep the last
\* max_conversation_history turns.
add_conversation(h, turn) ==
    IF Len(h) + 1 > MaxHistory
    THEN SubSeq(Append(h, turn), Len(h) + 2 - MaxHistory, Len(h) + 1)
    ELSE Append(h, turn)

\* How one call of call_llm_and_respond ends:
\*   "answered"       the provider streamed an answer;
\*   "provider_error" the provider raised; call_llm_stream caught it and
\*                    yielded its "service unavailable" text as a chunk;
\*   "internal_error" an exception inside call_llm_and_respond itself.
CallOutcomes == {"answered", "provider_error", "internal_error"}

\* What the assistant's side of the saved turn is, for each outcome that
\* reaches add_conversation (line 423-433): the text the stream yielded.
SavedAs(outcome) == IF outcome = "answered" THEN "answer" ELSE "unavailable"

\* call_llm_and_respond line 308-443: the stream ends (or fails), the turn is
\* saved unless the call raised, the finally clause clears the mark, and the
\* listener goes back to its loop.
LlmFinish(s, k) ==
    /\ tasks[s][k].st = "llm"
    /\ tasks' = [tasks EXCEPT ![s][k] = [st |-> "poll", inflight |-> FALSE]]
    /\ is_ai_speaking' = [is_ai_speaking EXCEPT ![s] = FALSE]
    /\ \E outcome \in CallOutcomes :
          history' = [history EXCEPT ![s] =
                        IF outcome # "internal_error" /\ is_running[s]
                        THEN add_conversation(@, SavedAs(outcome))
                        ELSE @]
    /\ UNCHANGED <<poolVars, use_connection_pool, phase, funasr_client,
                   funasr_task, asr_connected, is_running, accumulated_text,
                   last_complete_text, inbox, dedicated_of, pooled_closed_by,
                   finals, filterVars, lockVars, restVars, wire>>

\* ----------------------------------------------------- the think-tag filter
\* Texts are sequences of one-character strings.
ThinkStart == <<"<", "t", "h", "i", "n", "k", ">">>
ThinkEnd == <<"<", "/", "t", "h", "i", "n", "k", ">">>

\* The whitespace characters among those used.
Blank == {" ", "\n"}

\* A test that takes no character for whitespace.
isspace_Never(ch) == FALSE

\* str.isspace() and the regular expressions' \s.
isspace(ch) == ch \in Blank

\* marker.startswith(p)
StartsWith(marker, p) ==
    Len(p) <= Len(marker) /\ SubSeq(marker, 1, Len(p)) = p

\* The filter's local variables (consumers.py line 321-326) and what it has
\* sent so far.
FilterState ==
    [in_think_block |-> in_think_block, is_start_output |-> is_start_output,
     pending_content |-> pending_content, pending_pos |-> pending_pos,
     ai_chunks |-> ai_chunks, chunk_pos |-> chunk_pos]

\* await self.send({"type": "ai_chunk", "content": content}).
send_chunk(f, content, pos) ==
    [f EXCEPT !.ai_chunks = @ \o content, !.chunk_pos = @ \o pos]

Pend(f, ch, i) ==
    [f EXCEPT !.pending_content = Append(@, ch), !.pending_pos = Append(@, i)]
NoPending(f) == [f EXCEPT !.pending_content = <<>>, !.pending_pos = <<>>]

\* A think block that keeps what it buffered when the match has failed.
in_block_char_KeepsMismatch(f, ch, i) ==
    IF ch = "<" /\ f.pending_content = <<>>
    THEN Pend(f, ch, i)
    ELSE IF f.pending_content # <<>> /\ Len(f.pending_content) < 8
    THEN LET g == Pend(f, ch, i)
         IN IF g.pending_content = ThinkEnd
            THEN [NoPending(g) EXCEPT !.in_think_block = FALSE]
            ELSE g
    ELSE NoPending(f)

\* consumers.py line 337-353: a character inside a think block.
in_block_char(f, ch, i) ==
    IF ch = "<" /\ f.pending_content = <<>>
    THEN Pend(f, ch, i)
    ELSE IF f.pending_content # <<>> /\ Len(f.pending_content) < 8
    THEN LET g == Pend(f, ch, i)
         IN IF g.pending_content = ThinkEnd
            THEN [NoPending(g) EXCEPT !.in_think_block = FALSE]
            ELSE IF ~StartsWith(ThinkEnd, g.pending_content)
            THEN NoPending(g)
            ELSE g
    ELSE NoPending(f)

\* consumers.py line 354-390: a character before anything was sent.
start_char(f, ch, i) ==
    IF isspace(ch) THEN f
    ELSE IF ch = "<"
    THEN [f EXCEPT !.pending_content = <<"<">>, !.pending_pos = <<i>>]
    ELSE IF f.pending_content # <<>> /\ Len(f.pending_content) < 7
    THEN LET g == Pend(f, ch, i)
         IN IF g.pending_content = ThinkStart
            THEN [NoPending(g) EXCEPT !.in_think_block = TRUE]
            ELSE IF ~StartsWith(ThinkStart, g.pending_content)
            THEN NoPending([send_chunk(g, g.pending_content, g.pending_pos)
                               EXCEPT !.is_start_output = FALSE])
            ELSE g
    ELSE NoPending([send_chunk(f, Append(f.pending_content, ch),
                               Append(f.pending_pos, i))
                       EXCEPT !.is_start_output = FALSE])

\* consumers.py line 391-410: a character in the normal state.
normal_char(f, ch, i) ==
    IF ch = "<" /\ f.pending_content = <<>>
    THEN Pend(f, ch, i)
    ELSE IF f.pending_content # <<>> /\ Len(f.pending_content) < 7
    THEN LET g == Pend(f, ch, i)
         IN IF g.pending_content = ThinkStart
            THEN [NoPending(g) EXCEPT !.in_think_block = TRUE]
            ELSE IF ~StartsWith(ThinkStart, g.pending_content)
            THEN NoPending(send_chunk(g, g.pending_content, g.pending_pos))
            ELSE g
    ELSE send_chunk(f, <<ch>>, <<i>>)

\* consumers.py line 335-410: the body of "for char in chunk", for the
\* character at position i of the stream.
filter_char(f, ch, i) ==
    IF f.in_think_block THEN in_block_char(f, ch, i)
    ELSE IF f.is_start_output THEN start_char(f, ch, i)
    ELSE normal_char(f, ch, i)

\* A flush that also sends what is pending before the first sent character.
flush_pending_InStartToo(f) ==
    IF f.pending_content # <<>> /\ ~f.in_think_block
    THEN send_chunk(f, f.pending_content, f.pending_pos)
    ELSE f

\* consumers.py line 415-420: after the stream, what is still pending goes
\* out if the filter is in the normal state.
flush_pending(f) ==
    IF f.pending_content # <<>> /\ ~f.in_think_block /\ ~f.is_start_output
    THEN send_chunk(f, f.pending_content, f.pending_pos)
    ELSE f

SetFilter(f) ==
    /\ in_think_block' = f.in_think_block
    /\ is_start_output' = f.is_start_output
    /\ pending_content' = f.pending_content
    /\ pending_pos' = f.pending_pos
    /\ ai_chunks' = f.ai_chunks
    /\ chunk_pos' = f.chunk_pos

\* One character of a chunk is processed.  Chunk boundaries change nothing:
\* the filter's variables live across the chunks of a call.
FilterChar ==
    /\ ~stream_done
    /\ stream # <<>>
    /\ SetFilter(filter_char(FilterState, Head(stream), Len(full_response) + 1))
    /\ full_response' = Append(full_response, Head(stream))
    /\ stream' = Tail(stream)
    /\ UNCHANGED <<poolVars, sessVars, callVars, lockVars, restVars, wire,
                   stream_done>>

\* The stream is over.
FilterEnd ==
    /\ ~stream_done
    /\ stream = <<>>
    /\ SetFilter(flush_pending(FilterState))
    /\ stream_done' = TRUE
    /\ UNCHANGED <<poolVars, sessVars, callVars, lockVars, restVars, wire,
                   stream,
                   full_response>>

\* llm_client.filter_think_tags, the whole-string filter.
Occurs(t, m, a) ==
    a + Len(m) - 1 <= Len(t) /\ SubSeq(t, a, a + Len(m) - 1) = m

\* The first place at or after from where m occurs in t, 0 if there is none.
FirstAt(t, m, from) ==
    LET at == {a \in from..Len(t) : Occurs(t, m, a)}
    IN IF at = {} THEN 0 ELSE CHOOSE a \in at : \A b \in at : a <= b

\* re.sub(r'<think>.*?</think>', '', text, flags=re.DOTALL)
RECURSIVE RemoveThink(_)
RemoveThink(t) ==
    LET a == FirstAt(t, ThinkStart, 1)
        b == IF a = 0 THEN 0 ELSE FirstAt(t, ThinkEnd, a + Len(ThinkStart))
    IN IF a = 0 \/ b = 0 THEN t
       ELSE SubSeq(t, 1, a - 1)
               \o RemoveThink(SubSeq(t, b + Len(ThinkEnd), Len(t)))

\* The end of the whitespace that follows position 1 of t.
RECURSIVE SpaceRunEnd(_, _)
SpaceRunEnd(t, k) ==
    IF k < Len(t) /\ isspace(t[k + 1]) THEN SpaceRunEnd(t, k + 1) ELSE k

\* re.sub(r'\n\s*\n', '\n', text)
RECURSIVE CollapseBlankLines(_)
CollapseBlankLines(t) ==
    IF t = <<>> THEN <<>>
    ELSE IF Head(t) = "\n"
    THEN LET ends == {j \in 2..SpaceRunEnd(t, 1) : t[j] = "\n"}
         IN IF ends = {} THEN <<"\n">> \o CollapseBlankLines(Tail(t))
            ELSE LET last == CHOOSE j \in ends : \A e \in ends : e <= j
                 IN <<"\n">> \o CollapseBlankLines(SubSeq(t, last + 1, Len(t)))
    ELSE <<Head(t)>> \o CollapseBlankLines(Tail(t))

\* str.strip()
RECURSIVE strip(_)
strip(t) ==
    IF t # <<>> /\ isspace(Head(t)) THEN strip(Tail(t))
    ELSE IF t # <<>> /\ isspace(t[Len(t)]) THEN strip(SubSeq(t, 1, Len(t) - 1))
    ELSE t

filter_think_tags(text) == strip(CollapseBlankLines(RemoveThink(text)))

\* The texts the LLM streams: up to MaxPieces of these pieces in a row.
MaxPieces == 4
Span == ThinkStart \o <<"s">> \o ThinkEnd
Pieces == {ThinkStart, ThinkEnd, Span, <<"<">>, <<" ">>, <<"\n">>, <<"a">>}

RECURSIVE Texts(_)
Texts(n) ==
    IF n = 0 THEN {<<>>}
    ELSE LET T == Texts(n - 1) IN T \cup {t \o q : t \in T, q \in Pieces}

\* No call is streaming.
FilterIdle ==
    /\ stream = <<>>
    /\ full_response = <<>>
    /\ in_think_block = FALSE
    /\ is_start_output = TRUE
    /\ pending_content = <<>>
    /\ pending_pos = <<>>
    /\ ai_chunks = <<>>
    /\ chunk_pos = <<>>
    /\ stream_done = TRUE

\* --------------------------------------------- FunASRClient.receive_message
\* What can be read from a socket: a binary frame, a text frame that is not
\* JSON, a JSON event without and with "is_final".
BatchFrames == {"binary", "garbage", "json", "json_final"}

\* How the wait in websocket.recv() ends: with a frame, with the timeout,
\* with ConnectionClosed or with another exception.
Arrivals == BatchFrames \cup {"timeout", "closed", "error"}

\* receive_message returning None.
NoEvent == "no_event"

\* A receive that gives the connection up when the timeout elapses.
receive_message_TimeoutDrops(wsv, arrival) ==
    IF wsv # "open" THEN [ws |-> wsv, ret |-> NoEvent, waited |-> FALSE]
    ELSE IF arrival \in {"closed", "error", "timeout"}
    THEN [ws |-> "none", ret |-> NoEvent, waited |-> TRUE]
    ELSE [ws |-> wsv,
          ret |-> IF arrival \in {"json", "json_final"} THEN arrival ELSE NoEvent,
          waited |-> TRUE]

\* receive_message(timeout), called with the websocket in state wsv.  Without
\* a websocket, or with one that is closed, it returns None at once (line
\* 98-104).  Otherwise it waits in recv(): a JSON text frame is returned, a
\* binary frame, a text frame that is not JSON and the timeout give None, and
\* ConnectionClosed or any other exception give None with websocket = None.
\* waited says whether the call suspended.
receive_message(wsv, arrival) ==
    IF wsv # "open" THEN [ws |-> wsv, ret |-> NoEvent, waited |-> FALSE]
    ELSE IF arrival \in {"closed", "error"}
    THEN [ws |-> "none", ret |-> NoEvent, waited |-> TRUE]
    ELSE [ws |-> wsv,
          ret |-> IF arrival \in {"json", "json_final"} THEN arrival ELSE NoEvent,
          waited |-> TRUE]

\* is_connected() of a client whose websocket is in state wsv.
connected(wsv) == wsv = "open"

\* --------------------------------------------- FunASRClient.recognize_audio
\* chunk_size (line 161).
chunk_size == 960

\* The buffer lengths tried: empty, less than a chunk, a chunk more or less a
\* byte, whole chunks, and chunks with a remainder.
PcmLens == {0, 1, chunk_size - 1, chunk_size, chunk_size + 1,
            2 * chunk_size, 2 * chunk_size + 80}

\* Frames a socket buffers.
MaxBatchInbox == 1

Min(a, b) == IF a <= b THEN a ELSE b

\* A slice that always spans chunk_size bytes.
chunk_Fixed(len, pos) ==
    [kind |-> "audio", lo |-> pos, hi |-> pos + chunk_size]

\* pcm_data[pos:pos + chunk_size], as the bytes lo <= i < hi of the buffer.
chunk(len, pos) ==
    [kind |-> "audio", lo |-> pos, hi |-> Min(pos + chunk_size, len)]

OfflineConfig == [kind |-> "config", mode |-> "offline", is_speaking |-> TRUE]
EndConfig == [kind |-> "config", mode |-> "", is_speaking |-> FALSE]

\* result_task never reaches an await that suspends: it holds the event loop,
\* and no other coroutine or timer of the loop runs.
Spinning == b_task \in {"spin_call", "spin_none"}
LoopFree == ~Spinning

\* result_task.cancel(), and a task that nobody cancels.
batch_cancel(t) == IF t \in {"ready", "recv"} THEN "cancelled" ELSE t

\* The events the backend sends in JSON frames, by their mode and text: two
\* finalized fragments, a fragment of the online pass, a finalized event with
\* a blank text and an event without text.
BatchEvents ==
    {[mode |-> "offline", text |-> <<"a">>],
     [mode |-> "2pass-offline", text |-> <<"<|zh|>", "b">>],
     [mode |-> "2pass-online", text |-> <<"a">>],
     [mode |-> "offline", text |-> <<" ">>],
     [mode |-> "", text |-> <<>>]}

\* JSON events the backend sends to one recognition.
MaxEvents == 2

\* handle_recognition_results line 178-187: a non-blank text of an event of
\* mode offline or 2pass-offline is appended, stripped, with a blank.
accumulate(acc, data) ==
    IF strip(data.text) # <<>> /\ IsFinalMode(data.mode)
    THEN acc \o strip(data.text) \o <<" ">>
    ELSE acc

\* What recognize_audio returns: line 247 at the end of the try block, line
\* 251 from the except clause.
recognize_audio_returns(acc, raised) ==
    IF raised THEN <<>> ELSE clean_recognition_text(strip(acc))

\* No batch recognition is running.
BatchIdle ==
    /\ b_ws = "none"
    /\ b_len = 0
    /\ b_pc = "returned"
    /\ b_pos = 0
    /\ b_frames = <<>>
    /\ b_task = "none"
    /\ b_complete = FALSE
    /\ b_inbox = <<>>
    /\ b_arrived = <<>>
    /\ b_text = <<>>
    /\ b_result = <<>>

\* No recording has been uploaded.
NoAudio == [pc |-> "none"]

\* No client has anything to send, and nothing has been sent.
WireIdle ==
    /\ to_submit = [s \in Users |-> <<>>]
    /\ wire = [c \in ClientIds |-> <<>>]

RestIdle == BatchIdle /\ WireIdle /\ audio = NoAudio

\* line 144-158, 212: connect and send the offline configuration, then
\* create result_task.  A failed connect leaves no websocket; a failed
\* send_config leaves one, which the finally clause closes.
BatchStart ==
    /\ b_pc = "start"
    /\ \E outcome \in {"ok", "connect_failed", "config_failed"} :
          IF outcome = "ok"
          THEN /\ b_ws' = "open"
               /\ b_frames' = <<OfflineConfig>>
               /\ b_task' = "ready"
               /\ b_pc' = "sending"
          ELSE /\ b_ws' = IF outcome = "config_failed" THEN "open" ELSE "none"
               /\ b_pc' = "finally"
               /\ UNCHANGED <<b_frames, b_task>>
    /\ b_result' = recognize_audio_returns(b_text, TRUE)
    /\ UNCHANGED <<b_len, b_pos, b_complete, b_inbox, b_arrived, b_text>>
    /\ UNCHANGED <<poolVars, sessVars, callVars, filterVars, lockVars,
                   to_submit, wire, audio, globalVars>>

\* line 217-226: one turn of the sending loop.  send_audio_data raises on a
\* closed socket, which ends recognize_audio through its except clause.
BatchSendChunk ==
    /\ b_pc = "sending"
    /\ LoopFree
    /\ b_pos < b_len
    /\ IF b_ws = "open"
       THEN /\ b_frames' = Append(b_frames, chunk(b_len, b_pos))
            /\ b_pos' = b_pos + chunk_size
            /\ UNCHANGED <<b_pc, b_result>>
       ELSE /\ b_pc' = "finally"
            /\ b_result' = recognize_audio_returns(b_text, TRUE)
            /\ UNCHANGED <<b_frames, b_pos>>
    /\ UNCHANGED <<b_ws, b_len, b_task, b_complete, b_inbox, b_arrived,
                   b_text>>
    /\ UNCHANGED <<poolVars, sessVars, callVars, filterVars, lockVars,
                   to_submit, wire, audio, globalVars>>

\* line 230-234: the end-of-speech configuration.
BatchSendEnd ==
    /\ b_pc = "sending"
    /\ LoopFree
    /\ b_pos >= b_len
    /\ IF b_ws = "open"
       THEN /\ b_frames' = Append(b_frames, EndConfig)
            /\ b_pc' = "waiting"
            /\ UNCHANGED b_result
       ELSE /\ b_pc' = "finally"
            /\ b_result' = recognize_audio_returns(b_text, TRUE)
            /\ UNCHANGED b_frames
    /\ UNCHANGED <<b_ws, b_len, b_pos, b_task, b_complete, b_inbox,
                   b_arrived, b_text>>
    /\ UNCHANGED <<poolVars, sessVars, callVars, filterVars, lockVars,
                   to_submit, wire, audio, globalVars>>

\* line 237-243: wait_for returns because recognition_complete is set;
\* result_task is cancelled.
BatchComplete ==
    /\ b_pc = "waiting"
    /\ LoopFree
    /\ b_complete
    /\ b_task' = batch_cancel(b_task)
    /\ b_result' = recognize_audio_returns(b_text, FALSE)
    /\ b_pc' = "finally"
    /\ UNCHANGED <<b_ws, b_len, b_pos, b_frames, b_complete, b_inbox,
                   b_arrived, b_text>>
    /\ UNCHANGED <<poolVars, sessVars, callVars, filterVars, lockVars,
                   to_submit, wire, audio, globalVars>>

\* line 237-243: the 60 seconds are over and the event loop runs the timer;
\* wait_for raises TimeoutError, result_task is cancelled.
BatchTimeout ==
    /\ b_pc = "waiting"
    /\ LoopFree
    /\ ~b_complete
    /\ b_task' = batch_cancel(b_task)
    /\ b_result' = recognize_audio_returns(b_text, FALSE)
    /\ b_pc' = "finally"
    /\ UNCHANGED <<b_ws, b_len, b_pos, b_frames, b_complete, b_inbox,
                   b_arrived, b_text>>
    /\ UNCHANGED <<poolVars, sessVars, callVars, filterVars, lockVars,
                   to_submit, wire, audio, globalVars>>

\* A disconnect() that closes nothing.
disconnect_closes_Never(wsv) == FALSE

\* disconnect line 74: `if self.websocket`.
disconnect_closes(wsv) == wsv \notin {"none", "dropped"}

\* line 252-253 with disconnect(): with a websocket, wait for it to close;
\* without one, return.
BatchDisconnect ==
    /\ b_pc = "finally"
    /\ LoopFree
    /\ IF ~disconnect_closes(b_ws)
       THEN /\ b_pc' = "returned"
            /\ UNCHANGED b_ws
       ELSE /\ b_pc' = "closing"
            /\ b_ws' = "closed"
    /\ b_inbox' = <<>>
    /\ UNCHANGED <<b_len, b_pos, b_frames, b_task, b_complete, b_arrived,
                   b_text, b_result>>
    /\ UNCHANGED <<poolVars, sessVars, callVars, filterVars, lockVars,
                   to_submit, wire, audio, globalVars>>

\* websocket.close() is over: websocket = None, and recognize_audio returns.
BatchReturn ==
    /\ b_pc = "closing"
    /\ LoopFree
    /\ b_ws' = "none"
    /\ b_pc' = "returned"
    /\ UNCHANGED <<b_len, b_pos, b_frames, b_task, b_complete, b_inbox,
                   b_arrived, b_text, b_result>>
    /\ UNCHANGED <<poolVars, sessVars, callVars, filterVars, lockVars,
                   to_submit, wire, audio, globalVars>>

\* How result_task goes on after a receive_message that returned r (line
\* 175-209): None sends it back to the top of its loop, an event with
\* is_final sets recognition_complete and ends it, any other event is
\* handled (the progress callback may raise, which ends the task) and the
\* loop goes on.
AfterReceive(r, callback_ok) ==
    /\ b_ws' = r.ws
    /\ IF r.ret = NoEvent
       THEN /\ b_task' = IF r.ws = "open" THEN "recv" ELSE "spin_call"
            /\ UNCHANGED b_complete
       ELSE IF ~callback_ok
       THEN /\ b_task' = "done"
            /\ UNCHANGED b_complete
       ELSE IF r.ret = "json_final"
       THEN /\ b_task' = "done"
            /\ b_complete' = TRUE
       ELSE /\ b_task' = IF r.ws = "open" THEN "recv" ELSE "spin_call"
            /\ UNCHANGED b_complete

\* result_task runs for the first time: its first receive_message either
\* suspends in recv() or returns at once.
TaskStart ==
    /\ b_task = "ready"
    /\ b_task' = IF receive_message(b_ws, "timeout").waited
                 THEN "recv" ELSE "spin_call"
    /\ UNCHANGED <<b_ws, b_len, b_pc, b_pos, b_frames, b_complete, b_inbox,
                   b_arrived, b_text, b_result>>
    /\ UNCHANGED <<poolVars, sessVars, callVars, filterVars, lockVars,
                   to_submit, wire, audio, globalVars>>

\* The recv() that result_task waits in ends: with the next frame, with
\* ConnectionClosed when the socket was closed and nothing is left to read,
\* or with another exception.  (A timeout brings the task back to the same
\* recv().)
TaskReceive ==
    /\ b_task = "recv"
    /\ LoopFree
    /\ \E arrival \in Arrivals \ {"timeout"}, callback_ok \in BOOLEAN,
          data \in BatchEvents :
          /\ arrival \in BatchFrames =>
                b_inbox # <<>> /\ arrival = Head(b_inbox)
          /\ arrival = "closed" => b_inbox = <<>> /\ b_ws = "closed"
          /\ arrival = "error" => b_inbox = <<>>
          /\ b_inbox' = IF arrival \in BatchFrames THEN Tail(b_inbox)
                        ELSE b_inbox
          /\ \E r \in {receive_message("open", arrival)} :
                AfterReceive([r EXCEPT !.ws =
                                 IF @ # "none" THEN b_ws
                                 ELSE IF arrival = "error" /\ b_ws = "open"
                                 THEN "dropped" ELSE "none"],
                             callback_ok)
          /\ IF receive_message("open", arrival).ret = NoEvent
             THEN UNCHANGED <<b_arrived, b_text>>
             ELSE /\ b_arrived' = Append(b_arrived, data)
                  /\ b_text' = accumulate(b_text, data)
    /\ UNCHANGED <<b_len, b_pc, b_pos, b_frames, b_result>>
    /\ UNCHANGED <<poolVars, sessVars, callVars, filterVars, lockVars,
                   to_submit, wire, audio, globalVars>>

\* The loop of result_task on a client that is not connected (line 172-176):
\* receive_message returns None without suspending, and `continue` calls it
\* again.
TaskSpin ==
    /\ Spinning
    /\ ~receive_message(b_ws, "timeout").waited
    /\ b_task' = IF b_task = "spin_call" THEN "spin_none" ELSE "spin_call"
    /\ UNCHANGED <<b_ws, b_len, b_pc, b_pos, b_frames, b_complete, b_inbox,
                   b_arrived, b_text, b_result>>
    /\ UNCHANGED <<poolVars, sessVars, callVars, filterVars, lockVars,
                   to_submit, wire, audio, globalVars>>

\* The JSON events the backend has sent: those read and those still in the
\* socket's buffer.
JsonFrames == {"json", "json_final"}
EventsSent ==
    Len(b_arrived) + Len(SelectSeq(b_inbox, LAMBDA f : f \in JsonFrames))

\* The backend sends a frame.
BatchBackendSends ==
    /\ b_ws = "open"
    /\ b_pc \in {"sending", "waiting"}
    /\ Len(b_inbox) < MaxBatchInbox
    /\ \E f \in BatchFrames :
          /\ f \in JsonFrames => EventsSent < MaxEvents
          /\ b_inbox' = Append(b_inbox, f)
    /\ UNCHANGED <<b_ws, b_len, b_pc, b_pos, b_frames, b_task, b_complete,
                   b_arrived, b_text, b_result>>
    /\ UNCHANGED <<poolVars, sessVars, callVars, filterVars, lockVars,
                   to_submit, wire, audio, globalVars>>

\* The backend or the network closes the connection.
BatchTransportClosed ==
    /\ b_ws = "open"
    /\ b_pc \in {"sending", "waiting"}
    /\ b_ws' = "closed"
    /\ UNCHANGED <<b_len, b_pc, b_pos, b_frames, b_task, b_complete, b_inbox,
                   b_arrived, b_text, b_result>>
    /\ UNCHANGED <<poolVars, sessVars, callVars, filterVars, lockVars,
                   to_submit, wire, audio, globalVars>>

\* ---------------------------------------------------------- audio_processor
\* A Python float is an IEEE 754 binary64: a significand of this many bits.
Precision == 53

\* A positive float is [m |-> bits, e |-> exponent]: m is the significand,
\* Precision bits with the most significant first and equal to 1, and the
\* value is m[1].m[2]m[3]... times 2^e.  The arithmetic below works on the
\* significand in limbs of LimbBits bits, so that no intermediate value
\* needs more than 31 bits; it is exact for operands below 2^17.
RECURSIVE Pow2(_)
Pow2(k) == IF k = 0 THEN 1 ELSE 2 * Pow2(k - 1)

Limbs == 4
LimbBits == (Precision - 1) \div Limbs
Base == Pow2(LimbBits)

\* The binary digits of a natural number, the most significant first.
RECURSIVE ToBits(_)
ToBits(k) == IF k = 0 THEN <<>> ELSE Append(ToBits(k \div 2), k % 2)

RECURSIVE FromBits(_)
FromBits(bits) ==
    IF bits = <<>> THEN 0
    ELSE 2 * FromBits(SubSeq(bits, 1, Len(bits) - 1)) + bits[Len(bits)]

\* The binary digits of a sequence of limbs, and back.
BitsOf(limbs) ==
    [j \in 1..(Len(limbs) * LimbBits) |->
        (limbs[(j - 1) \div LimbBits + 1]
            \div Pow2(LimbBits - 1 - ((j - 1) % LimbBits))) % 2]

LimbsOf(bits) ==
    [k \in 1..(Len(bits) \div LimbBits) |->
        FromBits(SubSeq(bits, (k - 1) * LimbBits + 1, k * LimbBits))]

\* bits + 1; one digit longer when every digit was 1.
Increment(bits) ==
    IF \A i \in 1..Len(bits) : bits[i] = 1
    THEN <<1>> \o [i \in 1..Len(bits) |-> 0]
    ELSE LET last == CHOOSE i \in 1..Len(bits) :
                        /\ bits[i] = 0
                        /\ \A k \in (i + 1)..Len(bits) : bits[k] = 1
         IN  [i \in 1..Len(bits) |->
                 IF i < last THEN bits[i] ELSE IF i = last THEN 1 ELSE 0]

\* The float of significand bits and exponent e, rounded up or not.
Rounded(bits, e, up) ==
    IF ~up THEN [m |-> bits, e |-> e]
    ELSE IF Len(Increment(bits)) > Len(bits)
    THEN [m |-> SubSeq(Increment(bits), 1, Len(bits)), e |-> e + 1]
    ELSE [m |-> Increment(bits), e |-> e]

\* The largest e >= 0 with f * 2^e <= t, for t >= f.
RECURSIVE Up(_, _)
Up(t, f) == IF 2 * f <= t THEN 1 + Up(t, 2 * f) ELSE 0

\* The smallest k > 0 with t * 2^k >= f, for t < f.
RECURSIVE Down(_, _)
Down(t, f) == IF 2 * t >= f THEN 1 ELSE 1 + Down(2 * t, f)

\* The next k limbs of rem / b, and what is left.
RECURSIVE QuotientLimbs(_, _, _)
QuotientLimbs(rem, b, k) ==
    IF k = 0 THEN [limbs |-> <<>>, rem |-> rem]
    ELSE LET rest == QuotientLimbs((rem * Base) % b, b, k - 1)
         IN  [limbs |-> <<(rem * Base) \div b>> \o rest.limbs,
              rem |-> rest.rem]

\* to_rate / from_rate (line 183): the quotient of two positive integers,
\* rounded to the nearest float, ties to even.
true_divide(t, f) ==
    LET e == IF t >= f THEN Up(t, f) ELSE 0 - Down(t, f)
        a == IF e >= 0 THEN t ELSE t * Pow2(0 - e)
        b == IF e >= 0 THEN f * Pow2(e) ELSE f
        q == QuotientLimbs(a - b, b, Limbs)
        bits == <<1>> \o BitsOf(q.limbs)
        up == \/ 2 * q.rem > b
              \/ 2 * q.rem = b /\ bits[Precision] = 1
    IN  Rounded(bits, e, up)

\* The limbs of limbs * n + carry, after the digits that do not fit them.
RECURSIVE TimesLimbs(_, _, _)
TimesLimbs(limbs, n, carry) ==
    IF limbs = <<>> THEN [limbs |-> <<>>, carry |-> carry]
    ELSE LET d == limbs[Len(limbs)] * n + carry
             rest == TimesLimbs(SubSeq(limbs, 1, Len(limbs) - 1), n,
                                d \div Base)
         IN  [limbs |-> Append(rest.limbs, d % Base), carry |-> rest.carry]

\* len(samples) * ratio (line 184): the product of a positive integer and a
\* float, rounded to the nearest float, ties to even.
multiply(n, x) ==
    LET low == TimesLimbs(LimbsOf(Tail(x.m)), n, 0)
        p == ToBits(n + low.carry) \o BitsOf(low.limbs)
        dropped == SubSeq(p, Precision + 1, Len(p))
        kept == SubSeq(p, 1, Precision)
        up == /\ dropped # <<>>
              /\ dropped[1] = 1
              /\ \/ \E i \in 2..Len(dropped) : dropped[i] = 1
                 \/ kept[Precision] = 1
    IN  Rounded(kept, x.e + (Len(p) - Precision), up)

\* int(x) (line 184): the float without its fraction.
truncate(x) ==
    IF x.e < 0 THEN 0
    ELSE IF x.e + 1 <= Precision THEN FromBits(SubSeq(x.m, 1, x.e + 1))
    ELSE FromBits(x.m) * Pow2(x.e + 1 - Precision)

\* new_length of resample_audio (line 183-184) for n samples.
new_length(n, from_rate, to_rate) ==
    IF n = 0 THEN 0 ELSE truncate(multiply(n, true_divide(to_rate, from_rate)))

\* A sample the resampling computed (line 188-199); its value is not
\* modelled.
Interpolated == 0

\* resample_audio(pcm_data, from_rate, to_rate) on 16-bit samples: one
\* sample per turn of the loop of line 188.
resample_audio(pcm_data, from_rate, to_rate) ==
    IF from_rate = to_rate THEN pcm_data
    ELSE [i \in 1..new_length(Len(pcm_data), from_rate, to_rate) |->
             Interpolated]

Max(a, b) == IF a > b THEN a ELSE b

\* sum(samples[i:i+channels]) (line 154).
RECURSIVE SumFrom(_, _, _)
SumFrom(samples, i, k) ==
    IF k = 0 \/ i > Len(samples) THEN 0
    ELSE samples[i] + SumFrom(samples, i + 1, k - 1)

\* convert_to_mono_16bit(audio_data, channels, sample_width), on the samples
\* struct.unpack reads: 8-bit samples are unsigned, 16-bit ones signed.
convert_to_mono_16bit(audio_data, channels, sample_width) ==
    IF sample_width = 2 /\ channels = 1 THEN audio_data
    ELSE LET samples ==
                 IF sample_width = 1
                 THEN [i \in 1..Len(audio_data) |-> (audio_data[i] - 128) * 256]
                 ELSE audio_data
             mono ==
                 IF channels > 1
                 THEN [j \in 1..((Len(samples) + channels - 1) \div channels) |->
                          SumFrom(samples, (j - 1) * channels + 1, channels)
                             \div channels]
                 ELSE samples
         IN  [i \in 1..Len(mono) |-> Max(0 - 32768, Min(32767, mono[i]))]

\* The rate FunASR is given (process_wav_audio line 103-105).
TargetRate == 16000

\* process_wav_audio(audio_data) on a WAV file read by the wave module.
process_wav_audio(wav) ==
    LET pcm_data == convert_to_mono_16bit(wav.frames, wav.channels,
                                          wav.sample_width)
    IN  IF wav.sample_rate # TargetRate
        THEN [pcm_data |-> resample_audio(pcm_data, wav.sample_rate, TargetRate),
              sample_rate |-> TargetRate]
        ELSE [pcm_data |-> pcm_data, sample_rate |-> wav.sample_rate]

\* The recordings tried: sample rates, lengths in samples or sample-frames,
\* and one value for every sample of a recording.
Rates == {8000, 12250, 16000, 44100}
Lengths == {0, 1, 2, 3, 49, 100}
Values == {0, 200}
Constant(n, v) == [i \in 1..n |-> v]

\* resample_audio is called on 16-bit mono samples.
Resample ==
    /\ audio.pc = "pcm"
    /\ audio' = [audio EXCEPT !.pc = "resampled",
                              !.out = resample_audio(audio.pcm_data,
                                         audio.from_rate, audio.to_rate)]
    /\ UNCHANGED <<poolVars, sessVars, callVars, filterVars, lockVars,
                   batchVars, to_submit, wire,
                   globalVars>>

\* process_wav_audio is called on an uploaded WAV file.
ProcessWav ==
    /\ audio.pc = "wav"
    /\ audio' = [audio EXCEPT !.pc = "normalized",
                              !.out = process_wav_audio(audio.wav).pcm_data,
                              !.rate = process_wav_audio(audio.wav).sample_rate]
    /\ UNCHANGED <<poolVars, sessVars, callVars, filterVars, lockVars,
                   batchVars, to_submit, wire,
                   globalVars>>

\* -------------------------------------------------- get_connection_pool
\* funasr_pool.py line 214: no pool has been made, and no call is under way.
GlobalIdle ==
    /\ _connection_pool = None
    /\ instances = <<>>
    /\ gp_pc = [s \in Users |-> "idle"]
    /\ gp_ret = [s \in Users |-> None]

\* The values of pool_min_connections and pool_max_connections a caller may
\* read from SystemConfig.
GlobalConfigs == (0..MaxPool) \X (0..MaxPool)

\* line 219-221: the caller tests the global.  With a pool there it returns
\* that pool at once (line 228); with none it suspends in
\* get_system_config_async().
PoolCall(s) ==
    /\ gp_pc[s] \in {"idle", "returned"}
    /\ IF _connection_pool = None
       THEN /\ gp_pc' = [gp_pc EXCEPT ![s] = "config"]
            /\ UNCHANGED gp_ret
       ELSE /\ gp_pc' = [gp_pc EXCEPT ![s] = "returned"]
            /\ gp_ret' = [gp_ret EXCEPT ![s] = _connection_pool]
    /\ UNCHANGED <<_connection_pool, instances>>
    /\ UNCHANGED <<poolVars, sessVars, callVars, filterVars, lockVars,
                   batchVars, to_submit, audio, wire>>

\* line 222-227: resumed with the configuration, the caller constructs a
\* pool, assigns it to the global and calls initialize() on it.  initialize()
\* suspends while it connects (line 50-52); with min_connections 0 it does
\* not, and the caller returns the global in the same step (line 228).
PoolCreate(s) ==
    /\ gp_pc[s] = "config"
    /\ \E cfg \in GlobalConfigs :
          /\ instances' = Append(instances,
                                 [by |-> s,
                                  min_connections |-> cfg[1],
                                  max_connections |-> cfg[2],
                                  initialized |-> cfg[1] = 0])
          /\ _connection_pool' = Len(instances) + 1
          /\ IF cfg[1] = 0
             THEN /\ gp_pc' = [gp_pc EXCEPT ![s] = "returned"]
                  /\ gp_ret' = [gp_ret EXCEPT ![s] = Len(instances) + 1]
             ELSE /\ gp_pc' = [gp_pc EXCEPT ![s] = "initialize"]
                  /\ UNCHANGED gp_ret
    /\ UNCHANGED <<poolVars, sessVars, callVars, filterVars, lockVars,
                   batchVars, to_submit, audio, wire>>

\* line 227-228: initialize() of the caller's pool ends, and the caller
\* returns what the global holds now.
PoolInitialized(s) ==
    /\ gp_pc[s] = "initialize"
    /\ instances' = [i \in 1..Len(instances) |->
                       IF instances[i].by = s
                       THEN [instances[i] EXCEPT !.initialized = TRUE]
                       ELSE instances[i]]
    /\ gp_pc' = [gp_pc EXCEPT ![s] = "returned"]
    /\ gp_ret' = [gp_ret EXCEPT ![s] = _connection_pool]
    /\ UNCHANGED _connection_pool
    /\ UNCHANGED <<poolVars, sessVars, callVars, filterVars, lockVars,
                   batchVars, to_submit, audio, wire>>

\* ------------------------------------------------------------ specifications
\* StreamChatConsumer.__init__ (consumers.py line 16-21, 33-39).
SessInit ==
    /\ phase = [s \in Users |-> "new"]
    /\ funasr_client = [s \in Users |-> None]
    /\ funasr_task = [s \in Users |-> None]
    /\ tasks = [s \in Users |-> [k \in TaskSlots |-> NoTask]]
    /\ asr_connected = [s \in Users |-> FALSE]
    /\ is_running = [s \in Users |-> TRUE]
    /\ is_ai_speaking = [s \in Users |-> FALSE]
    /\ accumulated_text = [s \in Users |-> <<>>]
    /\ last_complete_text = [s \in Users |-> <<>>]
    /\ inbox = [c \in ClientIds |-> <<>>]
    /\ dedicated_of = [c \in ClientIds |-> None]
    /\ pooled_closed_by = {}
    /\ finals = [s \in Users |-> <<>>]
    /\ history = [s \in Users |-> <<>>]

\* The pool on its own, driven through its public methods.
Init ==
    PoolInit /\ SessInit /\ GlobalIdle /\ FilterIdle /\ RestIdle /\ use_connection_pool = TRUE

Next ==
    \/ Initialize
    \/ \E u \in Users : GetConnection(u)
    \/ \E u \in Users : ReleaseConnection(u)
    \/ Sweep
    \/ Close
    \/ Tick
    \/ \E c \in ClientIds : TransportClosed(c)

Spec == Init /\ [][Next]_vars

\* The cleanup task runs its sweep every 60 seconds for as long as it is not
\* cancelled, and time passes; what the users, the network and close() do is
\* up to them.
PoolFairSpec == Spec /\ WF_vars(Sweep) /\ WF_vars(Tick)

\* The consumers' connection handling, with the configuration changing under
\* them.
\* The pool configurations the sessions run under (SystemConfig
\* pool_min_connections, pool_max_connections): one where the pool is
\* exhausted by the second session, one where it is not.
SessionConfigs == {<<0, 1>>, <<1, MaxPool>>}

SessionInit ==
    /\ PoolInit
    /\ <<min_connections, max_connections>> \in SessionConfigs
    /\ SessInit /\ GlobalIdle
    /\ FilterIdle
    /\ RestIdle
    /\ use_connection_pool \in BOOLEAN

SessionNext ==
    \/ \E s \in Users : Connect(s)
    \/ \E s \in Users : AudioFrame(s)
    \/ \E s \in Users : ReconnectConnect(s)
    \/ \E s \in Users : Disconnect(s)
    \/ ToggleConfig
    \/ \E c \in ClientIds : TransportClosed(c)

SessionSpec == SessionInit /\ [][SessionNext]_vars

\* One session and its listener, under a pool that creates its connections on
\* demand.
TheSession == 1

ListenerInit ==
    /\ SessionInit
    /\ <<min_connections, max_connections>> = <<0, 1>>

ListenerNext ==
    \/ Connect(TheSession)
    \/ AudioFrame(TheSession)
    \/ ReconnectConnect(TheSession)
    \/ Disconnect(TheSession)
    \/ \E c \in ClientIds : TransportClosed(c)
    \/ \E c \in ClientIds : BackendEvent(c)
    \/ \E k \in TaskSlots : ListenerPoll(TheSession, k)
    \/ \E k \in TaskSlots : ListenerLaunch(TheSession, k)
    \/ \E k \in TaskSlots : LlmFinish(TheSession, k)

ListenerSpec == ListenerInit /\ [][ListenerNext]_vars

\* The event loop runs every task that can run: the listener, the calls it
\* started, and a handler that is in the middle of reconnecting.  What the
\* client, the network and the backend do is up to them.
ListenerFairSpec ==
    /\ ListenerSpec
    /\ \A k \in TaskSlots :
          /\ WF_vars(ListenerPoll(TheSession, k))
          /\ WF_vars(ListenerLaunch(TheSession, k))
          /\ WF_vars(LlmFinish(TheSession, k))
    /\ WF_vars(ReconnectConnect(TheSession))

\* The same session and listener, in either connection mode, with the client
\* sending numbered audio frames.
WireInit ==
    /\ PoolInit
    /\ <<min_connections, max_connections>> = <<0, 1>>
    /\ SessInit /\ GlobalIdle
    /\ FilterIdle
    /\ BatchIdle
    /\ use_connection_pool \in BOOLEAN
    /\ to_submit = [s \in Users |->
                      IF s = TheSession THEN [n \in 1..MaxFrames |-> n]
                      ELSE <<>>]
    /\ wire = [c \in ClientIds |-> <<>>]
    /\ audio = NoAudio

\* The backend sends a result when the listener has read the one before.
WireNext ==
    \/ Connect(TheSession)
    \/ AudioFrame(TheSession)
    \/ ReconnectConnect(TheSession)
    \/ Disconnect(TheSession)
    \/ \E c \in ClientIds : TransportClosed(c)
    \/ \E c \in ClientIds : inbox[c] = <<>> /\ BackendEvent(c)
    \/ \E k \in TaskSlots : ListenerPoll(TheSession, k)
    \/ \E k \in TaskSlots : ListenerLaunch(TheSession, k)
    \/ \E k \in TaskSlots : LlmFinish(TheSession, k)

WireSpec == WireInit /\ [][WireNext]_vars

\* Sessions that come and go on a pool of one connection, each with one audio
\* frame to send, numbered with the session that sends it.  What a session
\* says is recognized as its own words.
Words(s) == IF s = TheSession THEN <<"a">> ELSE <<"b">>

SharedInit ==
    /\ PoolInit
    /\ <<min_connections, max_connections>> = <<0, 1>>
    /\ SessInit /\ GlobalIdle
    /\ FilterIdle
    /\ BatchIdle
    /\ use_connection_pool = TRUE
    /\ to_submit = [s \in Users |-> <<s>>]
    /\ wire = [c \in ClientIds |-> <<>>]
    /\ audio = NoAudio

\* The backend sends a result for audio it has received on the connection.
BackendResult(c) ==
    /\ BackendEvent(c)
    /\ \E i \in 1..Len(wire[c]) :
          /\ wire[c][i].kind = "audio"
          /\ inbox'[c][Len(inbox'[c])].text = Words(wire[c][i].n)

SharedNext ==
    \/ \E s \in Users : Connect(s)
    \/ \E s \in Users : AudioFrame(s)
    \/ \E s \in Users : ReconnectConnect(s)
    \/ \E s \in Users : Disconnect(s)
    \/ \E c \in ClientIds : BackendResult(c)
    \/ \E s \in Users, k \in TaskSlots : ListenerPoll(s, k)
    \/ \E s \in Users, k \in TaskSlots : ListenerLaunch(s, k)
    \/ \E s \in Users, k \in TaskSlots : LlmFinish(s, k)

SharedSpec == SharedInit /\ [][SharedNext]_vars

\* One call's stream through the think-tag filter, for every text.
FilterInit ==
    /\ PoolInit /\ min_connections = 0 /\ max_connections = 0
    /\ SessInit /\ GlobalIdle /\ use_connection_pool = TRUE
    /\ RestIdle
    /\ stream \in Texts(MaxPieces)
    /\ full_response = <<>>
    /\ in_think_block = FALSE
    /\ is_start_output = TRUE
    /\ pending_content = <<>>
    /\ pending_pos = <<>>
    /\ ai_chunks = <<>>
    /\ chunk_pos = <<>>
    /\ stream_done = FALSE

FilterNext == FilterChar \/ FilterEnd

FilterSpec == FilterInit /\ [][FilterNext]_vars

\* The pool with the sweep and close() taken one suspension at a time; the
\* methods that take the lock wait until it is free.
StatsInit == Init

StatsNext ==
    \/ InitializeBegin
    \/ InitializeEnd
    \/ \E u \in Users : LockFree /\ GetConnection(u)
    \/ \E u \in Users : LockFree /\ ReleaseConnection(u)
    \/ SweepBegin
    \/ SweepStep
    \/ CloseBegin
    \/ CloseWaits
    \/ CloseAcquire
    \/ CloseStep
    \/ Tick
    \/ \E c \in ClientIds : TransportClosed(c)

StatsSpec == StatsInit /\ [][StatsNext]_vars

\* One batch recognition, for every buffer length.
BatchInit ==
    /\ PoolInit /\ min_connections = 0 /\ max_connections = 0
    /\ SessInit /\ GlobalIdle /\ use_connection_pool = TRUE
    /\ FilterIdle
    /\ WireIdle
    /\ audio = NoAudio
    /\ b_ws = "none"
    /\ b_len \in PcmLens
    /\ b_pc = "start"
    /\ b_pos = 0
    /\ b_frames = <<>>
    /\ b_task = "none"
    /\ b_complete = FALSE
    /\ b_inbox = <<>>
    /\ b_arrived = <<>>
    /\ b_text = <<>>
    /\ b_result = <<>>

BatchNext ==
    \/ BatchStart
    \/ BatchSendChunk
    \/ BatchSendEnd
    \/ BatchComplete
    \/ BatchTimeout
    \/ BatchDisconnect
    \/ BatchReturn
    \/ TaskStart
    \/ TaskReceive
    \/ TaskSpin
    \/ BatchBackendSends
    \/ BatchTransportClosed

BatchSpec == BatchInit /\ [][BatchNext]_vars

\* The event loop runs every coroutine that is ready and every timer that is
\* due; the backend owes nothing.
BatchFairSpec ==
    /\ BatchSpec
    /\ WF_vars(BatchStart) /\ WF_vars(BatchSendChunk) /\ WF_vars(BatchSendEnd)
    /\ WF_vars(BatchComplete) /\ WF_vars(BatchTimeout)
    /\ WF_vars(BatchDisconnect) /\ WF_vars(BatchReturn)
    /\ WF_vars(TaskStart) /\ WF_vars(TaskReceive) /\ WF_vars(TaskSpin)

\* One event loop serves everything: a session on the pool and its teardown,
\* another user of the pool, the pool's sweep, and a batch recognition
\* (UploadConsumer, consumers.py line 842) whose backend sends no result.  A coroutine takes a step when the
\* loop is free to run it, and a method that takes the pool lock when the
\* lock is free as well.
OtherUsers == Users \ {TheSession}

TeardownInit ==
    /\ PoolInit
    /\ <<min_connections, max_connections>> = <<1, MaxPool>>
    /\ SessInit /\ GlobalIdle
    /\ FilterIdle
    /\ WireIdle
    /\ audio = NoAudio
    /\ use_connection_pool = TRUE
    /\ b_ws = "none"
    /\ b_len = 1
    /\ b_pc = "start"
    /\ b_pos = 0
    /\ b_frames = <<>>
    /\ b_task = "none"
    /\ b_complete = FALSE
    /\ b_inbox = <<>>
    /\ b_arrived = <<>>
    /\ b_text = <<>>
    /\ b_result = <<>>

TeardownNext ==
    \/ LoopFree /\ LockFree /\ Connect(TheSession)
    \/ LoopFree /\ TeardownBegin(TheSession)
    \/ LoopFree /\ TeardownEnd(TheSession)
    \/ \E k \in TaskSlots : LoopFree /\ ListenerPoll(TheSession, k)
    \/ \E u \in OtherUsers : LoopFree /\ LockFree /\ GetConnection(u)
    \/ \E u \in OtherUsers : LoopFree /\ LockFree /\ ReleaseConnection(u)
    \/ LoopFree /\ SweepBegin
    \/ LoopFree /\ SweepStep
    \/ Tick
    \/ \E c \in ClientIds : TransportClosed(c)
    \/ BatchStart
    \/ BatchSendChunk
    \/ BatchSendEnd
    \/ BatchTimeout
    \/ BatchDisconnect
    \/ BatchReturn
    \/ TaskStart
    \/ TaskReceive
    \/ TaskSpin
    \/ BatchTransportClosed

TeardownSpec == TeardownInit /\ [][TeardownNext]_vars

\* The event loop runs every coroutine that is ready; asyncio.Lock wakes its
\* waiters in the order they came, so a teardown that waits for the lock gets
\* it once the holder lets go.
TeardownFairSpec ==
    /\ TeardownSpec
    /\ WF_vars(LoopFree /\ SweepStep)
    /\ SF_vars(LoopFree /\ TeardownEnd(TheSession))
    /\ WF_vars(TaskStart) /\ WF_vars(TaskReceive) /\ WF_vars(TaskSpin)
    /\ WF_vars(BatchDisconnect) /\ WF_vars(BatchReturn)

\* The audio processor on its own, for every recording tried.
AudioInit ==
    /\ PoolInit
    /\ <<min_connections, max_connections>> = <<0, 0>>
    /\ SessInit /\ GlobalIdle
    /\ use_connection_pool = TRUE
    /\ FilterIdle
    /\ BatchIdle
    /\ WireIdle
    /\ \/ \E n \in Lengths, v \in Values, f \in Rates, t \in Rates :
             audio = [pc |-> "pcm", pcm_data |-> Constant(n, v),
                      from_rate |-> f, to_rate |-> t, out |-> <<>>]
       \/ \E n \in Lengths, v \in Values, f \in Rates,
             channels \in 1..2, sample_width \in 1..2 :
             audio = [pc |-> "wav",
                      wav |-> [channels |-> channels,
                               sample_width |-> sample_width,
                               sample_rate |-> f,
                               frames |-> Constant(n * channels, v)],
                      out |-> <<>>, rate |-> 0]

AudioNext == Resample \/ ProcessWav

AudioSpec == AudioInit /\ [][AudioNext]_vars

\* The sessions' calls of get_connection_pool, in every order.
GlobalInit ==
    /\ PoolInit /\ min_connections = 0 /\ max_connections = 0
    /\ SessInit /\ GlobalIdle
    /\ use_connection_pool = TRUE
    /\ FilterIdle
    /\ BatchIdle
    /\ WireIdle
    /\ audio = NoAudio

GlobalNext ==
    \/ \E s \in Users : PoolCall(s)
    \/ \E s \in Users : PoolCreate(s)
    \/ \E s \in Users : PoolInitialized(s)

GlobalSpec == GlobalInit /\ [][GlobalNext]_vars

\* ------------------------------------------------------------ the pool's claims
Bound == {u \in Users : user_connections[u] # None}
InUse == {i \in 1..Len(connections) : meta[connections[i]].in_use}
AllLive == \A i \in 1..Len(connections) : ws[connections[i]] = "open"
AfterSweep == cleanup_idle_connections(World, min_connections, now)
AfterGet(u, ok) == get_connection(World, u, max_connections, now, ok)

\* C1: a sweep of a pool that holds at least min_connections connections
\* leaves at least min_connections of them.
C1_SweepKeepsMin ==
    (cleanup_task /\ Len(connections) >= min_connections)
        => Len(AfterSweep.connections) >= min_connections

\* C2 as stated: while every pooled connection is live and creations succeed,
\* get_connection for an unbound owner returns a connection exactly when
\* fewer than max_connections owners are bound.
C2_ExhaustedAtMax ==
    (initialized /\ AllLive)
        => \A u \in Users \ Bound :
              (AfterGet(u, TRUE).ret # None)
                  <=> (Cardinality(Bound) < max_connections)

\* C2, for a pool configured with min_connections <= max_connections: while
\* every pooled connection is live and creations succeed, get_connection for
\* an unbound owner returns a connection exactly when fewer than
\* max_connections owners are bound, and None for the owner after those.
C2_ExhaustedAtMax_MinLeMax ==
    (initialized /\ min_connections <= max_connections /\ AllLive)
        => \A u \in Users \ Bound :
              (AfterGet(u, TRUE).ret # None)
                  <=> (Cardinality(Bound) < max_connections)

\* max_connections owners hold a connection each, and the next owner is
\* turned away.
C2_Witness ==
    /\ initialized /\ AllLive
    /\ 1 <= max_connections /\ min_connections <= max_connections
    /\ Cardinality(Bound) = max_connections
    /\ \E u \in Users \ Bound : AfterGet(u, TRUE).path = "exhausted"

\* C3: every bound owner holds one pooled connection, no connection has two
\* owners, and a connection is in use exactly when one owner is mapped to it,
\* so there are as many connections in use as bound owners.
C3_OneOwnerPerConnection ==
    /\ \A i, j \in 1..Len(connections) :
          connections[i] = connections[j] => i = j
    /\ \A u \in Bound : user_connections[u] \in Range(connections)
    /\ \A u, v \in Bound : user_connections[u] = user_connections[v] => u = v
    /\ \A i \in 1..Len(connections) :
          /\ meta[connections[i]].in_use
                <=> Cardinality({u \in Users :
                                   user_connections[u] = connections[i]}) = 1
          /\ meta[connections[i]].in_use
                => /\ meta[connections[i]].user_id \in Users
                   /\ user_connections[meta[connections[i]].user_id]
                         = connections[i]
    /\ Cardinality(InUse) = Cardinality(Bound)

\* One owner has released, the other still holds its connection, and both
\* connections are pooled.
C3_Witness ==
    /\ Cardinality(Bound) = 1
    /\ Len(connections) = 2
    /\ Cardinality(InUse) = 1
    /\ \E i \in 1..Len(connections) :
          ~meta[connections[i]].in_use /\ meta[connections[i]].last_used > 0

\* C4: in a pool with min_connections <= max_connections, whatever
\* get_connection does (return a bound or free connection, create one, fail
\* to create one, or find the pool exhausted), it leaves at most
\* max_connections pooled connections.
C4_AtMostMaxAfterGet ==
    (initialized /\ min_connections <= max_connections)
        => \A u \in Users, ok \in BOOLEAN :
              Len(AfterGet(u, ok).w.connections) <= max_connections

\* The pool is full and get_connection finds it exhausted; in another state
\* it could still create one.
C4_Witness ==
    /\ initialized /\ min_connections <= max_connections
    /\ Len(connections) = max_connections /\ max_connections >= 1
    /\ \E u \in Users : AfterGet(u, TRUE).path = "exhausted"

\* C5: get_connection for an owner whose bound connection is live returns
\* that connection, and leaves the pooled connections and the bound owners
\* as they are.
C5_SameConnectionTwice ==
    \A u \in Bound :
        (initialized /\ ws[user_connections[u]] = "open")
            => \A ok \in BOOLEAN :
                  /\ AfterGet(u, ok).ret = user_connections[u]
                  /\ AfterGet(u, ok).w.connections = connections
                  /\ AfterGet(u, ok).w.user_connections = user_connections

\* An owner holds a live connection while a free live connection stands
\* before it in the list.
C5_Witness ==
    \E u \in Bound :
        /\ initialized /\ ws[user_connections[u]] = "open"
        /\ \E i, j \in 1..Len(connections) :
              /\ i < j /\ connections[j] = user_connections[u]
              /\ ~meta[connections[i]].in_use /\ ws[connections[i]] = "open"

\* ------------------------------------------------------- the sessions' claims
\* C6: no session ever calls disconnect() on a client that is in the pool's
\* list, whether it tears down or reconnects, and whatever use_connection_pool
\* has become since it started.
C6_SessionNeverClosesPooled == pooled_closed_by = {}

\* C7: once a session is torn down, no pooled connection is bound to its id
\* and no dedicated connection it opened is still open.
C7_NothingLeftAfterTeardown ==
    \A s \in Users :
        phase[s] = "closed"
            => /\ user_connections[s] = None
               /\ \A c \in ClientIds : dedicated_of[c] = s => ws[c] # "open"

\* ------------------------------------------------------- the listener's claims
IsBlank(text) == RStrip(LStrip(text)) = <<>>
Calls(s) == {k \in TaskSlots : tasks[s][k].st = "llm"}
Handling(s) == {k \in TaskSlots : tasks[s][k].st = "final_send"}

\* C8 as stated: once the listener is done with two consecutive Final events
\* of the same non-blank cleaned text, exactly one of them has started an LLM
\* call; a Final event with a blank cleaned text starts none.
C8_ExactlyOneCall ==
    \A s \in Users :
        /\ (/\ Len(finals[s]) = 2
            /\ finals[s][1].text = finals[s][2].text
            /\ ~IsBlank(finals[s][1].text)
            /\ Handling(s) = {})
              => (finals[s][1].launched # finals[s][2].launched)
        /\ \A i \in 1..Len(finals[s]) :
              IsBlank(finals[s][i].text) => ~finals[s][i].launched

\* C8: of two consecutive Final events of the same cleaned text the second
\* starts no LLM call, so the two start at most one; a Final event with a
\* blank cleaned text starts none.
C8_SecondIdenticalFinalNeverCalls ==
    \A s \in Users :
        /\ (Len(finals[s]) = 2 /\ finals[s][1].text = finals[s][2].text)
              => ~finals[s][2].launched
        /\ \A i \in 1..Len(finals[s]) :
              IsBlank(finals[s][i].text) => ~finals[s][i].launched

\* Two Final events in a row were cleaned to the same text, the second from
\* a raw text with a marker; the first started a call and the second did not.
C8_Witness ==
    \E s \in Users :
        /\ Len(finals[s]) = 2
        /\ finals[s][1].text = finals[s][2].text
        /\ finals[s][1].launched /\ ~finals[s][2].launched
        /\ accumulated_text[s] # finals[s][2].text
        /\ clean_recognition_text(accumulated_text[s]) = finals[s][2].text
        /\ Handling(s) = {} /\ Calls(s) = {}

\* C9: no LLM call is started for a Final event that the backend delivered
\* while an LLM call of the session was in progress.
C9_InflightFinalNeverCalls ==
    \A s \in Users : \A k \in Calls(s) : ~tasks[s][k].inflight

\* C10: a session has at most one call_llm_and_respond in progress.
C10_AtMostOneCall == \A s \in Users : Cardinality(Calls(s)) <= 1

\* A call is in progress, the session is marked as speaking, and the backend
\* has delivered another event that waits on the socket.
C10_Witness ==
    \E s \in Users :
        /\ Cardinality(Calls(s)) = 1
        /\ is_ai_speaking[s]
        /\ funasr_client[s] # None
        /\ inbox[funasr_client[s]] # <<>>

\* --------------------------------------------------- the reconnect's claims
\* The start sequence run by a reconnect has failed for s in this step: the
\* handler is back, and no listener was started.
ReconnectFailed(s) ==
    phase[s] = "reconnect" /\ phase'[s] = "open" /\ tasks'[s] = tasks[s]

\* The next audio frame of s gets past line 197 and finds the client not
\* connected, so it calls reconnect_funasr.
FrameWouldReconnect(s) ==
    /\ asr_connected[s]
    /\ funasr_client[s] # None
    /\ ~is_connected(World, funasr_client[s])

\* C11: when the start sequence of a reconnect fails, the session is left in
\* a state in which its next audio frame makes another reconnect attempt.
C11_FailedReconnectRetried ==
    [][\A s \in Users : ReconnectFailed(s) => FrameWouldReconnect(s)']_vars

\* An audio frame of s has found the connection closed, or failed to send,
\* in this step; its handler is now before the start sequence.
ReconnectBegins(s) == phase[s] = "open" /\ phase'[s] = "reconnect"
ReconnectEnds(s) == phase[s] = "reconnect" /\ phase'[s] = "open"
Listening(tsk) == {k \in TaskSlots : tsk[k].st \in {"poll", "final_send", "llm"}}

\* C12: the frame's handler first cancels the listener, then releases the
\* connection if it came from the pool or closes it if the session opened it,
\* and only then runs the start sequence, once: when the handler returns the
\* session has at most the one listener that sequence started.
C12_OneReconnectInOrder ==
    [][\A s \in Users :
          /\ ReconnectBegins(s) =>
                /\ Listening(tasks'[s]) = {}
                /\ user_connections[s] = funasr_client[s]
                      => user_connections'[s] = None
                /\ dedicated_of[funasr_client[s]] = s
                      => ws'[funasr_client[s]] = "none"
          /\ ReconnectEnds(s) =>
                /\ Listening(tasks[s]) = {}
                /\ Cardinality(Listening(tasks'[s])) <= 1
      ]_vars

\* ---------------------------------------------------------- the call's claims
\* C13: no turn whose answer is the "service unavailable" text of a failed
\* LLM call is in a session's conversation history.
C13_FailedTurnNotSaved ==
    \A s \in Users :
        \A i \in 1..Len(history[s]) : history[s][i] # "unavailable"

\* -------------------------------------------------------- the filter's claims
\* C14: once a text has been streamed through the filter, the ai_chunk
\* contents, concatenated, are filter_think_tags of the text.
C14_StreamingEqualsWhole ==
    stream_done => ai_chunks = filter_think_tags(full_response)

\* t is W + '<think>' + X + '</think>' + Y with W of w whitespace characters,
\* the end marker at j, no '<' in X or Y, and Y starting with a character
\* that is neither whitespace nor '<'.
HiddenThenText(t, w, j) ==
    /\ \A i \in 1..w : t[i] \in Blank
    /\ Occurs(t, ThinkStart, w + 1)
    /\ j >= w + 1 + Len(ThinkStart)
    /\ Occurs(t, ThinkEnd, j)
    /\ \A i \in (w + 1 + Len(ThinkStart))..(j - 1) : t[i] # "<"
    /\ j + Len(ThinkEnd) <= Len(t)
    /\ t[j + Len(ThinkEnd)] \notin Blank
    /\ \A i \in (j + Len(ThinkEnd))..Len(t) : t[i] # "<"

\* C15: a text W + '<think>' + X + '</think>' + Y of that form, streamed one
\* character at a time, comes out as exactly Y.
C15_HiddenThenTextGivesText ==
    stream_done
        => \A w \in 0..Len(full_response), j \in 1..Len(full_response) :
              HiddenThenText(full_response, w, j)
                  => ai_chunks = SubSeq(full_response, j + Len(ThinkEnd),
                                        Len(full_response))

\* Such a text with leading whitespace has been streamed, and what came out
\* is its Y, trailing whitespace included.
C15_Witness ==
    /\ stream_done
    /\ \E w \in 1..Len(full_response), j \in 1..Len(full_response) :
          /\ HiddenThenText(full_response, w, j)
          /\ ai_chunks = SubSeq(full_response, j + Len(ThinkEnd),
                                Len(full_response))
          /\ Len(ai_chunks) >= 2
          /\ ai_chunks[Len(ai_chunks)] \in Blank

\* The positions of t, shifted by off, that lie between a '<think>' and the
\* '</think>' that ends it.
RECURSIVE HiddenPositions(_, _)
HiddenPositions(t, off) ==
    LET a == FirstAt(t, ThinkStart, 1)
        b == IF a = 0 THEN 0 ELSE FirstAt(t, ThinkEnd, a + Len(ThinkStart))
    IN IF a = 0 \/ b = 0 THEN {}
       ELSE {off + i : i \in (a + Len(ThinkStart))..(b - 1)}
               \cup HiddenPositions(SubSeq(t, b + Len(ThinkEnd), Len(t)),
                                    off + b + Len(ThinkEnd) - 1)

\* C16: no character sent in an ai_chunk comes from a place of the streamed
\* text between a '<think>' and its '</think>'.
C16_NeverEmitsHidden ==
    \A i \in 1..Len(chunk_pos) :
        chunk_pos[i] \notin HiddenPositions(full_response \o stream, 0)


\* -------------------------------------------------------------- get_stats
\* The pooled connections whose client the pool has already disconnected.
ClosedByPool == {i \in 1..Len(connections) : ws[connections[i]] = "none"}

\* C17: every snapshot get_stats can return is one of a pool between
\* operations: no connection that the sweep or close() has already
\* disconnected is still counted, total = active + idle and
\* active = active_users.
C17_StatsConsistent ==
    LET s == get_stats(World)
    IN /\ s.total_connections = s.active_connections + s.idle_connections
       /\ s.active_connections = s.active_users
       /\ s.total_connections = Len(connections) - Cardinality(ClosedByPool)


\* ------------------------------------------------------ release_connection
AfterRelease(u) == release_connection(World, u, now)

\* C18: releasing a bound owner removes its binding, marks its connection
\* free with last_used refreshed, and changes nothing else: the list, the
\* sockets, every other connection's record and every other binding stay as
\* they were, and the connection, if it is connected, is what a following
\* get_connection of an owner without a live binding can be given without
\* creating one.  Releasing an unbound owner changes nothing.
C18_ReleaseFrame ==
    \A u \in Users :
        IF user_connections[u] = None
        THEN AfterRelease(u) = World
        ELSE LET c == user_connections[u]
                 w == AfterRelease(u)
             IN /\ w.user_connections = [user_connections EXCEPT ![u] = None]
                /\ w.meta = [meta EXCEPT ![c] = [last_used |-> now,
                                                 in_use |-> FALSE,
                                                 user_id |-> None]]
                /\ w.connections = connections
                /\ c \in Range(connections)
                /\ w.ws = ws
                /\ w.initialized = initialized
                /\ w.cleanup_task = cleanup_task
                /\ ws[c] = "open" =>
                      /\ \E i \in FreeIndexes(w) : connections[i] = c
                      /\ \A v \in Users : \A ok \in BOOLEAN :
                            ~HasLiveBinding(w, v) =>
                               LET g == get_connection(w, v, max_connections,
                                                       now, ok)
                               IN /\ g.path = "free"
                                  /\ g.w.connections = connections

\* Both owners hold live connections, one of them last used before now.
C18_Witness ==
    /\ \A u \in Users : user_connections[u] # None
    /\ \A u \in Users : ws[user_connections[u]] = "open"
    /\ \E u \in Users : meta[user_connections[u]].last_used < now


\* ------------------------------------------------------- a failed creation
\* C19 as stated: when get_connection has to create a connection and the
\* creation fails, the call returns None and the list and the owner mapping
\* are exactly what they were before the call.
C19_FailedCreationChangesNothing ==
    \A u \in Users :
        (initialized /\ AfterGet(u, FALSE).path = "failed") =>
            /\ AfterGet(u, FALSE).ret = None
            /\ AfterGet(u, FALSE).w.connections = connections
            /\ AfterGet(u, FALSE).w.user_connections = user_connections

\* C19: when get_connection has to create a connection and the creation
\* fails, the call returns None, the list is what it was before the call, and
\* so is the owner mapping except for the caller's own entry, which is gone
\* if it pointed at a connection that is no longer connected (that connection
\* is marked free); every other binding is untouched.
C19_FailedCreationKeepsPool ==
    \A u \in Users :
        (initialized /\ AfterGet(u, FALSE).path = "failed") =>
            LET g == AfterGet(u, FALSE)
                c == user_connections[u]
            IN /\ g.ret = None
               /\ g.w.connections = connections
               /\ g.w.user_connections = [user_connections EXCEPT ![u] = None]
               /\ c # None =>
                     /\ ws[c] # "open"
                     /\ ~g.w.meta[c].in_use
               /\ \A d \in ClientIds \ {c} : g.w.meta[d] = meta[d]

\* An owner bound to a connection that has gone dead asks again, the pool has
\* room for one more, and the creation fails.
C19_Witness ==
    \E u \in Users :
        /\ initialized
        /\ user_connections[u] # None
        /\ ws[user_connections[u]] = "closed"
        /\ Len(connections) < max_connections
        /\ AfterGet(u, FALSE).path = "failed"


\* ------------------------------------------------------------------ close()
\* A close() call returns: its loop is over and it releases the lock.
CloseReturns ==
    /\ CloseBegin \/ CloseAcquire \/ CloseStep
    /\ lock' = "free"

\* A close() call on a pool that an earlier close() has left empty.
ClosedAlready ==
    /\ connections = <<>>
    /\ \A u \in Users : user_connections[u] = None
    /\ ~cleanup_task

\* C20: when close() returns the sweep task is stopped, no pooled connection
\* is left open and the list and the owner mapping are empty; a close() of a
\* pool already closed leaves it as it is; and once stopped by close() the
\* sweep task is not started again.
C20_CloseStopsAndEmpties ==
    [][/\ CloseReturns =>
            /\ ~cleanup_task'
            /\ connections' = <<>>
            /\ \A u \in Users : user_connections'[u] = None
            /\ \A i \in 1..Len(connections) : ws'[connections[i]] # "open"
       /\ (CloseReturns /\ ClosedAlready) =>
            UNCHANGED <<connections, user_connections, cleanup_task>>
       /\ (initialized /\ ~cleanup_task) => ~cleanup_task']_vars


\* ------------------------------------------------------- batch recognition
\* C21: a batch recognition that has sent its end-of-speech configuration
\* returns: the final event or the 60-second bound ends its wait, also when
\* the backend closes the connection without a final event.
C21_BatchTerminates == (b_pc = "waiting") ~> (b_pc = "returned")


\* C22: on a connected client, receive_message gives no event for an elapsed
\* timeout, a binary frame and a text frame that is not JSON, and the client
\* stays connected; when it finds the transport closed it gives no event, the
\* client is not connected afterwards, and every later receive_message on it
\* gives no event at once and leaves it not connected.
C22_ReceiveOutcomes ==
    \A arrival \in Arrivals :
        LET r == receive_message(b_ws, arrival)
        IN /\ (connected(b_ws) /\ arrival \in {"timeout", "binary", "garbage"})
                => r.ret = NoEvent /\ r.ws = b_ws /\ connected(r.ws)
           /\ (~connected(b_ws) \/ arrival = "closed")
                => /\ r.ret = NoEvent
                   /\ ~connected(r.ws)
                   /\ \A later \in Arrivals :
                         LET q == receive_message(r.ws, later)
                         IN /\ q.ret = NoEvent
                            /\ ~q.waited
                            /\ ~connected(q.ws)

\* The result task was waiting in receive_message when the backend closed
\* the connection, found it closed, and polls the dead client.
C22_Witness ==
    /\ b_pc = "waiting"
    /\ b_ws = "none"
    /\ Spinning


\* The audio frames among the frames sent, and whether the end-of-speech
\* configuration has been sent.
AudioFrames == SelectSeq(b_frames, LAMBDA f : f.kind = "audio")
EndSent == b_frames # <<>> /\ b_frames[Len(b_frames)] = EndConfig

\* C30: the frames of a batch recognition are one offline configuration, then
\* audio frames, then (when the sending was not cut short) one end-of-speech
\* configuration; the audio frames are consecutive slices of the buffer, each
\* of chunk_size bytes except possibly the last, and once the end-of-speech
\* configuration is sent they add up to the whole buffer, which for an empty
\* buffer is no audio frame at all.
C30_BatchFrameOrder ==
    LET n == Len(b_frames)
        a == AudioFrames
    IN /\ n > 0 => b_frames[1] = OfflineConfig
       /\ \A i \in 2..n :
             \/ b_frames[i].kind = "audio"
             \/ i = n /\ b_frames[i] = EndConfig
       /\ \A i \in 1..Len(a) :
             /\ a[i].lo = IF i = 1 THEN 0 ELSE a[i - 1].hi
             /\ a[i].lo < a[i].hi
             /\ a[i].hi <= b_len
             /\ i < Len(a) => a[i].hi - a[i].lo = chunk_size
             /\ a[i].hi - a[i].lo <= chunk_size
       /\ EndSent =>
             /\ n = Len(a) + 2
             /\ IF b_len = 0 THEN a = <<>> ELSE a[Len(a)].hi = b_len
       /\ b_pc = "waiting" => EndSent

\* A buffer of two chunks and a remainder has been sent whole.
C30_Witness ==
    /\ b_pc = "waiting"
    /\ b_len = 2 * chunk_size + 80
    /\ Len(AudioFrames) = 3


\* The session's handler would pass a frame on: handle_binary_audio_data
\* line 197, 201.
Connected(s) ==
    /\ asr_connected[s]
    /\ funasr_client[s] # None
    /\ is_connected(World, funasr_client[s])

\* The numbers of the audio frames sent on a client, in the order sent.
AudioSent(c) ==
    [i \in 1..Len(SelectSeq(wire[c], LAMBDA f : f.kind = "audio")) |->
        SelectSeq(wire[c], LAMBDA f : f.kind = "audio")[i].n]

\* The handler of session s took a frame while the session was connected and
\* the socket took the frame.
FrameHandled(s) ==
    /\ to_submit[s] # <<>>
    /\ to_submit'[s] = Tail(to_submit[s])
    /\ Connected(s)
    /\ ws'[funasr_client[s]] = "open"

\* C23: while a streaming session is connected, every audio frame handled is
\* put on the session's ASR connection in that very step, after everything
\* sent on it before, whatever the listener is doing (an LLM call in flight,
\* no result received yet); so the frames on a connection are in submission
\* order.
C23_FramesForwardedInOrder ==
    /\ [][\A s \in Users :
            FrameHandled(s) =>
               /\ funasr_client'[s] = funasr_client[s]
               /\ wire'[funasr_client[s]] =
                     Append(wire[funasr_client[s]],
                            [kind |-> "audio", n |-> Head(to_submit[s]),
                             busy |-> LlmInFlight(s)])]_vars
    /\ [](\A c \in ClientIds :
            \A i, j \in 1..Len(AudioSent(c)) :
               i < j => AudioSent(c)[i] < AudioSent(c)[j])

\* Both frames went out on one connection, the first before any result had
\* arrived and the second while an LLM call was in flight.
C23_Witness ==
    \E c \in ClientIds :
       wire[c] = <<[kind |-> "config"],
                   [kind |-> "audio", n |-> 1, busy |-> FALSE],
                   [kind |-> "audio", n |-> 2, busy |-> TRUE]>>


\* A config frame was sent on client c before its i-th frame.
ConfigBefore(c, i) == \E j \in 1..(i - 1) : wire[c][j].kind = "config"

\* connect_funasr got as far as line 100 or 117 for session s in this step:
\* asr_connected was sent to the boundary, and the listener was started.
ReportsConnected(s) == funasr_task'[s] # funasr_task[s] /\ asr_connected'[s]

\* C29: on every ASR connection of a streaming session, pooled or dedicated,
\* an audio frame is sent only after a config frame on that connection, and
\* asr_connected is reported only when the config frame has been sent on
\* the session's connection.
C29_ConfigBeforeAudio ==
    /\ [](\A c \in ClientIds : \A i \in 1..Len(wire[c]) :
            wire[c][i].kind = "audio" => ConfigBefore(c, i))
    /\ [][\A s \in Users :
            ReportsConnected(s) =>
               /\ funasr_client'[s] # None
               /\ wire'[funasr_client'[s]] # <<>>
               /\ wire'[funasr_client'[s]][1].kind = "config"]_vars


\* ---------------------------------------------------------- audio_processor
\* resample_audio has returned for an input of n samples.
Resampled == audio.pc = "resampled"

\* The 2-channel 8-bit 8000 Hz WAV file of 100 sample-frames has been
\* normalized.
NormalizedExample ==
    /\ audio.pc = "normalized"
    /\ audio.wav.channels = 2
    /\ audio.wav.sample_width = 1
    /\ audio.wav.sample_rate = 8000
    /\ Len(audio.wav.frames) = 100 * 2

\* C24: resample_audio returns its input unchanged when the rates are equal
\* and floor(n * to_rate / from_rate) samples for n input samples when they
\* differ, so 8000 Hz to 16000 Hz doubles the sample count, and the
\* 2-channel 8-bit 8000 Hz WAV file of 100 sample-frames normalizes to 200
\* mono 16-bit samples at 16000 Hz.
C24_ResampleLength ==
    /\ Resampled /\ audio.from_rate = audio.to_rate =>
          audio.out = audio.pcm_data
    /\ Resampled /\ audio.from_rate # audio.to_rate =>
          Len(audio.out) =
             (Len(audio.pcm_data) * audio.to_rate) \div audio.from_rate
    /\ Resampled /\ audio.from_rate = 8000 /\ audio.to_rate = 16000 =>
          Len(audio.out) = 2 * Len(audio.pcm_data)
    /\ NormalizedExample => Len(audio.out) = 200 /\ audio.rate = 16000


\* ------------------------------------------------- the listener and a lost
\* connection.  The listener of session s is running and its connection is
\* closed: its next turn finds that out (handle_funasr_responses line
\* 244-246; a failed receive closes the client first, receive_message line
\* 130-139).
ListenerOnClosed(s) ==
    /\ phase[s] = "open"
    /\ is_running[s]
    /\ funasr_task[s] # None
    /\ tasks[s][funasr_task[s]].st = "poll"
    /\ \/ funasr_client[s] = None
       \/ ~is_connected(World, funasr_client[s])

\* C25: when the listener finds a receive failure or a closed connection,
\* the session goes on to a reconnect attempt (or is torn down), also when
\* the client sends no further audio frame.
C25_ListenerReconnects ==
    ListenerOnClosed(TheSession) ~>
       (phase[TheSession] \in {"reconnect", "closed"})


\* ------------------------------------------------------------ the idle sweep
\* The sweep takes connection c off the list in this step.
SweepRemoves(c) ==
    /\ cleanup_task'
    /\ ~close_waiting
    /\ lock \in {"free", "sweep"}
    /\ lock' \in {"free", "sweep"}
    /\ c \in Range(connections)
    /\ c \notin Range(connections')

\* The sweep acts in this step: it collects, or goes on after a disconnect.
SweepActs ==
    /\ cleanup_task'
    /\ ~close_waiting
    /\ lock \in {"free", "sweep"}
    /\ lock' \in {"free", "sweep"}
    /\ todo' # todo \/ Len(connections') < Len(connections)

\* C26: the sweep removes only connections that are free (not in use,
\* without owner) and idle for longer than max_idle_time when they are
\* removed; a removed connection is closed and off the list, also when
\* closing it raised; and no step of the sweep closes a connection that is
\* bound to an owner.
C26_SweepOnlyFreeIdle ==
    [][/\ \A c \in ClientIds :
            SweepRemoves(c) =>
               /\ ~meta[c].in_use
               /\ meta[c].user_id = None
               /\ \A u \in Users : user_connections[u] # c
               /\ now - meta[c].last_used > MaxIdleTime
               /\ ws'[c] # "open"
               /\ c \notin Range(connections')
       /\ SweepActs =>
            \A u \in Users :
               user_connections[u] # None =>
                  /\ user_connections'[u] = user_connections[u]
                  /\ ws'[user_connections[u]] = ws[user_connections[u]]
                  /\ user_connections[u] \in Range(connections')]_vars

\* The sweep is closing a free connection while another, just as idle, is
\* bound to its owner and open.
C26_Witness ==
    /\ lock = "sweep"
    /\ todo # <<>>
    /\ \E u \in Users :
          /\ user_connections[u] # None
          /\ ws[user_connections[u]] = "open"
          /\ now - meta[user_connections[u]].last_used > MaxIdleTime


\* ------------------------------------------------------------- initialize()
\* initialize() returns in this step, and every creation succeeded.
InitializeReturns ==
    /\ lock = "initialize"
    /\ lock' = "free"
    /\ Len(connections') = Len(connections) + min_connections

\* C27: after initialize() with every creation succeeding the pool holds
\* exactly min_connections connections, all free, and its sweep task runs;
\* an initialize() on a pool that is initialized, called again or having
\* waited for the first one, changes nothing, and only the initialize()
\* that finds the pool uninitialized starts a sweep task.
C27_InitializeOnce ==
    /\ [][InitializeReturns =>
            /\ Len(connections') = min_connections
            /\ \A c \in Range(connections') :
                  /\ ~meta'[c].in_use
                  /\ meta'[c].user_id = None
                  /\ \A u \in Users : user_connections'[u] # c
            /\ Cardinality(Range(connections')) = min_connections
            /\ cleanup_task'
            /\ initialized']_vars
    /\ [](initialized =>
            \A k \in 0..min_connections : initialize(World, k, now) = World)
    /\ [][~cleanup_task /\ cleanup_task' => ~initialized]_vars
    /\ [][initialized => initialized']_vars

\* initialize() has returned with all its connections, at least one.
C27_Witness ==
    /\ initialized
    /\ cleanup_task
    /\ lock = "free"
    /\ min_connections > 0
    /\ Len(connections) = min_connections
    /\ \A c \in Range(connections) : ~meta[c].in_use /\ ws[c] = "open"

\* ------------------------------------------------------- the teardown's claims
\* The session is in its teardown, past the cancellation of its listener.
TearingDown(s) == phase[s] = "teardown"

\* The teardown is over and the pool holds nothing for the session.
TornDown(s) == phase[s] = "closed" /\ user_connections[s] = None

\* C28: a session teardown that has begun completes, with the pooled
\* connection released, whether the listener was running, had stopped or was
\* never started; it does not wait for the pool lock forever.
C28_TeardownCompletes == TearingDown(TheSession) ~> TornDown(TheSession)

\* ------------------------------------------------- batch recognition's text
\* The finalized fragments among the events received: mode offline or
\* 2pass-offline, and a text that is not blank.
IsFragment(data) == data.mode \in {"offline", "2pass-offline"}
                    /\ \E i \in 1..Len(data.text) : data.text[i] \notin Blank

\* The fragments joined in order, each followed by a blank.
RECURSIVE Joined(_)
Joined(events) ==
    IF events = <<>> THEN <<>>
    ELSE strip(Head(events).text) \o <<" ">> \o Joined(Tail(events))

\* recognize_audio has computed what it returns.
BatchOver == b_pc \in {"finally", "closing", "returned"}

\* C31: what a batch recognition returns is the text of all and only the
\* finalized fragments it received, in arrival order, also when the bound
\* elapsed or a later send or receive failed.
C31_BatchTextIsTheFragments ==
    BatchOver =>
        b_result =
            clean_recognition_text(strip(Joined(SelectSeq(b_arrived,
                                                          IsFragment))))

\* ------------------------------------------------- the filter's buffering
\* The text read so far holds no complete start marker.
NoStartMarker == FirstAt(full_response, ThinkStart, 1) = 0

\* The positions read so far from the first character that is not
\* whitespace on, in order.
FromFirstVisible ==
    LET n == Len(full_response)
        visible == {i \in 1..n : ~isspace(full_response[i])}
    IN IF visible = {} THEN <<>>
       ELSE LET first == CHOOSE i \in visible : \A j \in visible : i <= j
            IN [k \in 1..(n - first + 1) |-> first + k - 1]

\* C32: of a text without a complete start marker, every character read so
\* far, except the whitespace before the first visible one, has been sent or
\* is held in the pending buffer, in the order of the text, and the sent
\* characters are the characters of the text at these positions: a failed
\* marker match loses nothing.
C32_NothingLostWithoutMarker ==
    NoStartMarker =>
        /\ chunk_pos \o pending_pos = FromFirstVisible
        /\ ai_chunks = [k \in 1..Len(chunk_pos) |-> full_response[chunk_pos[k]]]

\* The marker the filter is looking for.
TrackedMarker == IF in_think_block THEN ThinkEnd ELSE ThinkStart

\* C33: after every character, the pending buffer is empty or a strict prefix
\* of the marker being tracked, '<think>' outside a think block and
\* '</think>' inside one; it is never longer than the longest marker.
C33_PendingIsStrictPrefix ==
    /\ \/ pending_content = <<>>
       \/ /\ StartsWith(TrackedMarker, pending_content)
          /\ Len(pending_content) < Len(TrackedMarker)
    /\ Len(pending_content) <= Len(ThinkEnd)

\* Inside a think block all of the end marker but its last character is
\* buffered, after an earlier match in the block had failed.
C33_Witness ==
    /\ in_think_block
    /\ Len(pending_content) = Len(ThinkEnd) - 1
    /\ \E i \in 1..(Len(full_response) - Len(ThinkEnd)) :
          /\ full_response[i] = "<"
          /\ i > Len(ThinkStart)
          /\ full_response[i + 1] # "/"

\* The filter is in the normal state: something was sent, and no think block
\* is open.
NormalState == ~in_think_block /\ ~is_start_output

\* The step that ends the stream.
StreamEnds == ~stream_done /\ stream_done'

\* C34: when the stream ends with a partial marker match pending, the
\* buffered characters are sent as they are if the filter is in the normal
\* state, and nothing is sent if it is inside a think block or has not sent
\* anything yet; with nothing pending nothing is sent.
C34_EndFlushOnlyInNormal ==
    [][StreamEnds =>
          IF pending_content # <<>> /\ NormalState
          THEN /\ ai_chunks' = ai_chunks \o pending_content
               /\ chunk_pos' = chunk_pos \o pending_pos
          ELSE UNCHANGED <<ai_chunks, chunk_pos>>]_vars

\* A stream has ended in the normal state with '<' pending, which went out
\* as the last character sent.
C34_Witness ==
    /\ stream_done
    /\ NormalState
    /\ pending_content = <<"<">>
    /\ chunk_pos # <<>>
    /\ chunk_pos[Len(chunk_pos)] = Len(full_response)
    /\ ai_chunks[Len(ai_chunks)] = "<"

\* ------------------------------------------------- sessions on one connection
\* C35: what a session's listener takes from the connection and sends to the
\* session's boundary, as a partial or as a final result, was recognized from
\* audio this session sent; a connection released by one session and
\* acquired by another brings the new session none of the old one's results.
C35_NoResultOfAnotherSession ==
    \A s \in Users :
        /\ accumulated_text[s] \in {<<>>, Words(s)}
        /\ last_complete_text[s] \in {<<>>, Words(s)}

\* ------------------------------------------------------ dead connections
\* Every owner has released, and every pooled connection is free, has lost
\* its transport and has been idle for longer than max_idle_time, with the
\* cleanup task running.
DeadWeight ==
    /\ initialized
    /\ cleanup_task
    /\ max_connections >= 1
    /\ connections # <<>>
    /\ \A u \in Users : user_connections[u] = None
    /\ \A i \in 1..Len(connections) :
          /\ ~is_connected(World, connections[i])
          /\ ~meta[connections[i]].in_use
          /\ now - meta[connections[i]].last_used > MaxIdleTime

\* get_connection has a connection to hand out or room to create one.
HasCapacity == FreeIndexes(World) # {} \/ CanCreate(World, max_connections)

\* C36: pooled connections whose transport has closed do not take up the
\* pool's capacity forever: once every owner has released, they are removed
\* or replaced and a get_connection can succeed again, also when the total
\* equals min or min equals max.
C36_DeadConnectionsGoAway == DeadWeight ~> HasCapacity

\* ------------------------------------------------------ the global pool
\* The callers whose call has returned, and the pools they were given.
Returned == {s \in Users : gp_pc[s] = "returned"}

\* C37: whatever the order in which the sessions' get_connection_pool calls
\* run, at most one FunASRConnectionPool is ever constructed and initialized,
\* and every caller is given that same one.
C37_OnePoolPerProcess ==
    /\ Len(instances) <= 1
    /\ \A s, t \in Returned : gp_ret[s] = gp_ret[t]

\* ------------------------------------------------------ one listener
\* The listener tasks of session s that have not ended.
Live(s) == {k \in TaskSlots : tasks[s][k].st \in {"poll", "final_send", "llm"}}

\* C38: a streaming session never has more than one listener task
\* (handle_funasr_responses) that has not ended, across the first start and
\* every reconnect: the listener before has stopped before the next starts.
C38_OneListenerPerSession == \A s \in Users : Cardinality(Live(s)) <= 1

\* A listener runs on a connection the session got by a reconnect: a frame
\* was handled, and the client the session holds now was sent no audio.
C38_Witness ==
    /\ Live(TheSession) # {}
    /\ asr_connected[TheSession]
    /\ phase[TheSession] = "open"
    /\ funasr_client[TheSession] # None
    /\ Len(to_submit[TheSession]) < MaxFrames
    /\ \A i \in 1..Len(wire[funasr_client[TheSession]]) :
          wire[funasr_client[TheSession]][i].kind # "audio"

\* ------------------------------------------------------ asr_connected
\* connect_funasr of session s ends in this step without having started a
\* listener: the first start or a reconnect attempt failed.
AttemptFails(s) ==
    /\ phase[s] \in {"new", "reconnect"}
    /\ phase'[s] = "open"
    /\ Live(s)' = {}

\* C39: asr_connected says that the session holds a connection its last
\* start sequence obtained: when a start or reconnect attempt fails,
\* asr_connected is false afterwards.
C39_FailedAttemptIsNotConnected ==
    [][\A s \in Users : AttemptFails(s) => ~asr_connected'[s]]_vars

\* ------------------------------------------------- recognize_audio's socket
\* recognize_audio has returned from a call in which it connected.
ReturnedAfterConnect == b_pc = "returned" /\ b_frames # <<>>

\* C40: recognize_audio closes the connection it opened on every way out (a
\* normal return, the overall timeout, a failed connect or send): when the
\* call has returned, the client is not connected and no socket of it is
\* left open.
C40_ClosedOnReturn == b_pc = "returned" => b_ws \notin {"open", "dropped"}

\* The call returned without the final result, after the connection had been
\* opened and used: by the timeout or by a failed send.
C40_Witness == ReturnedAfterConnect /\ ~b_complete /\ b_ws = "none"

====
